---- MODULE Spec2Model ----
(***************************************************************************)
(* Model of mesonbuild/linkers.py: the RPATH engine (evaluate_rpath,       *)
(* order_rpaths, prepare_rpaths, build_rpath_args) and the capability      *)
(* methods of the dynamic linker classes.  Python strings are TLA+         *)
(* strings, Python lists are sequences.  SpecRpath draws the arguments of  *)
(* one RPATH call and applies the engine; SpecCaps constructs one linker   *)
(* instance and makes one capability call on it; SpecProbe constructs the  *)
(* probing archivers and parses the nvlink banner; SpecShared and SpecConc *)
(* let several callers use one instance; SpecGnu and SpecVs make one call  *)
(* on a GNU-like and on a Visual-Studio-like linker.  SpecIntro models the *)
(* introspection file writers of mesonbuild/mintro.py: files is the info   *)
(* directory, updated_introspection_files the module-level list.           *)
(***************************************************************************)
EXTENDS Integers, Sequences, FiniteSets, TLC

VARIABLES linker, env, args, call, result, pc, heap, callers, procs, files,
          updated_introspection_files

vars ==
    <<linker, env, args, call, result, pc, heap, callers, procs, files,
      updated_introspection_files>>

(***************************************************************************)
(* Bounds of the model.                                                    *)
(***************************************************************************)
\* longest raw rpath list handed to prepare_rpaths / build_rpath_args
MaxRpaths == 2
\* longest whole-archive member list
MaxMembers == 2
\* number of callers that share one linker instance
NumCallers == 2

\* longest updated_introspection_files a new mintro call may still extend
MaxUpdated == 9

(***************************************************************************)
(* Python str and list primitives.                                         *)
(***************************************************************************)
startswith(s, p) == Len(s) >= Len(p) /\ SubSeq(s, 1, Len(p)) = p

endswith(s, p) == Len(s) >= Len(p) /\ SubSeq(s, Len(s) - Len(p) + 1, Len(s)) = p

\* 'X' * n
RECURSIVE repeat(_, _)
repeat(c, n) == IF n <= 0 THEN "" ELSE c \o repeat(c, n - 1)

\* s.split(sep) for a one-character separator
RECURSIVE split(_, _)
split(s, sep) ==
    IF s = "" THEN <<"">>
    ELSE LET rest == split(Tail(s), sep)
         IN  IF Head(s) = sep
             THEN <<"">> \o rest
             ELSE <<Head(s) \o Head(rest)>> \o Tail(rest)

\* sep.join(parts)
RECURSIVE str_join(_, _)
str_join(sep, parts) ==
    IF parts = <<>> THEN ""
    ELSE IF Len(parts) = 1 THEN parts[1]
    ELSE parts[1] \o sep \o str_join(sep, Tail(parts))

\* needle in haystack
RECURSIVE contains(_, _)
contains(haystack, needle) ==
    IF Len(haystack) < Len(needle) THEN FALSE
    ELSE startswith(haystack, needle) \/ contains(Tail(haystack), needle)

\* x in lst
member(x, lst) == \E i \in 1..Len(lst) : lst[i] = x

\* mesonlib.listify on a list of lists: one level of flattening
RECURSIVE listify(_)
listify(ll) == IF ll = <<>> THEN <<>> ELSE Head(ll) \o listify(Tail(ll))

(***************************************************************************)
(* posixpath: isabs, join, normpath, abspath, relpath.                     *)
(***************************************************************************)
\* os.getcwd(): only read by relpath when build_dir is relative
getcwd == "/w"

isabs(p) == startswith(p, "/")

path_join(a, b) ==
    IF isabs(b) THEN b
    ELSE IF a = "" \/ endswith(a, "/") THEN a \o b
    ELSE a \o "/" \o b

\* the component loop of normpath, for a path with initial slashes
RECURSIVE norm_comps(_, _)
norm_comps(comps, new_comps) ==
    IF comps = <<>> THEN new_comps
    ELSE LET comp == Head(comps)
         IN  IF comp = "" \/ comp = "."
             THEN norm_comps(Tail(comps), new_comps)
             ELSE IF comp # ".." \/
                     (new_comps # <<>> /\ new_comps[Len(new_comps)] = "..")
             THEN norm_comps(Tail(comps), Append(new_comps, comp))
             ELSE IF new_comps # <<>>
             THEN norm_comps(Tail(comps), SubSeq(new_comps, 1, Len(new_comps) - 1))
             ELSE norm_comps(Tail(comps), new_comps)

\* [x for x in abspath(p).split('/') if x]
abs_list(p) == norm_comps(split(path_join(getcwd, p), "/"), <<>>)

\* len(commonprefix([a, b]))
RECURSIVE common_len(_, _)
common_len(a, b) ==
    IF a = <<>> \/ b = <<>> THEN 0
    ELSE IF Head(a) # Head(b) THEN 0
    ELSE 1 + common_len(Tail(a), Tail(b))

\* path is never empty here (build_dir is not), so the ValueError branch is not taken
relpath(path, start) ==
    LET start_list == abs_list(start)
        path_list  == abs_list(path)
        i          == common_len(start_list, path_list)
        rel_list   == [k \in 1..(Len(start_list) - i) |-> ".."]
                        \o SubSeq(path_list, i + 1, Len(path_list))
    IN  IF rel_list = <<>> THEN "." ELSE str_join("/", rel_list)

(***************************************************************************)
(* The RPATH engine.                                                       *)
(***************************************************************************)
evaluate_rpath_keep_abs(p, build_dir, from_dir) ==
    IF isabs(p) THEN p
    ELSE IF p = from_dir THEN ""
    ELSE relpath(path_join(build_dir, p), path_join(build_dir, from_dir))

evaluate_rpath_no_isabs(p, build_dir, from_dir) ==
    IF p = from_dir THEN ""
    ELSE relpath(path_join(build_dir, p), path_join(build_dir, from_dir))

evaluate_rpath(p, build_dir, from_dir) ==
    IF p = from_dir THEN ""
    ELSE IF isabs(p) THEN p
    ELSE relpath(path_join(build_dir, p), path_join(build_dir, from_dir))

\* sorted(): a stable insertion of x behind every element whose key is not larger
RECURSIVE insert_sorted(_, _)
insert_sorted(lst, x) ==
    IF lst = <<>> THEN <<x>>
    ELSE IF isabs(Head(lst)) /\ ~isabs(x) THEN <<x>> \o lst
    ELSE <<Head(lst)>> \o insert_sorted(Tail(lst), x)

RECURSIVE sorted_isabs(_, _)
sorted_isabs(rpath_list, acc) ==
    IF rpath_list = <<>> THEN acc
    ELSE sorted_isabs(Tail(rpath_list), insert_sorted(acc, Head(rpath_list)))

\* the reverse flag of sorted(): absolute entries first
RECURSIVE reversed(_)
reversed(lst) == IF lst = <<>> THEN <<>> ELSE Append(reversed(Tail(lst)), Head(lst))

order_rpaths_abs_first(rpath_list) ==
    reversed(sorted_isabs(reversed(rpath_list), <<>>))

order_rpaths(rpath_list) == sorted_isabs(rpath_list, <<>>)

prepare_rpaths(raw_rpaths, build_dir, from_dir) ==
    LET internal_format_rpaths ==
            [i \in 1..Len(raw_rpaths) |-> evaluate_rpath(raw_rpaths[i], build_dir, from_dir)]
    IN  order_rpaths(internal_format_rpaths)

\* mesonlib.OrderedSet.add: kept at its first position
ordered_set_add(s, x) == IF member(x, s) THEN s ELSE Append(s, x)

RECURSIVE ordered_set_from(_, _)
ordered_set_from(lst, s) ==
    IF lst = <<>> THEN s
    ELSE ordered_set_from(Tail(lst), ordered_set_add(s, Head(lst)))

OrderedSet_no_dedup(lst) == lst

OrderedSet(lst) == ordered_set_from(lst, <<>>)

\* the all_paths set of build_rpath_args
all_paths_build_rpath_first(origin_placeholder, rpath_paths, build_dir, from_dir, build_rpath) ==
    LET processed_rpaths == prepare_rpaths(rpath_paths, build_dir, from_dir)
        prefixed == [i \in 1..Len(processed_rpaths) |->
                        path_join(origin_placeholder, processed_rpaths[i])]
    IN  IF build_rpath # "" THEN OrderedSet(<<build_rpath>> \o prefixed)
        ELSE OrderedSet(prefixed)

all_paths_no_origin(origin_placeholder, rpath_paths, build_dir, from_dir, build_rpath) ==
    LET s == OrderedSet(prepare_rpaths(rpath_paths, build_dir, from_dir))
    IN  IF build_rpath # "" THEN ordered_set_add(s, build_rpath) ELSE s

all_paths(origin_placeholder, rpath_paths, build_dir, from_dir, build_rpath) ==
    LET processed_rpaths == prepare_rpaths(rpath_paths, build_dir, from_dir)
        prefixed == [i \in 1..Len(processed_rpaths) |->
                        path_join(origin_placeholder, processed_rpaths[i])]
        s == OrderedSet(prefixed)
    IN  IF build_rpath # "" THEN ordered_set_add(s, build_rpath) ELSE s

pad_rpath_no_padding(paths, install_rpath) == paths

\* the padding block of build_rpath_args
pad_rpath(paths, install_rpath) ==
    IF Len(paths) < Len(install_rpath)
    THEN LET padding == repeat("X", Len(install_rpath) - Len(paths))
         IN  IF paths = "" THEN padding ELSE paths \o ":" \o padding
    ELSE paths

(***************************************************************************)
(* Linker instances: class, id and prefix_arg as fixed by __init__.        *)
(* prefix_arg is a str or a list of str (typing.Union); is_str is the      *)
(* isinstance test of _apply_prefix.                                       *)
(***************************************************************************)
StrPrefix(s) == [is_str |-> TRUE, s |-> s, l |-> <<>>]

ListPrefix(l) == [is_str |-> FALSE, s |-> "", l |-> l]

Linker(cls, id, prefix_arg) == [cls |-> cls, id |-> id, prefix_arg |-> prefix_arg]

_apply_prefix_shared_list(self, arg) ==
    IF self.prefix_arg.is_str THEN <<self.prefix_arg.s \o arg>>
    ELSE self.prefix_arg.l

_apply_prefix_unprefixed(self, arg) == <<arg>>

_apply_prefix(self, arg) ==
    IF self.prefix_arg.is_str THEN <<self.prefix_arg.s \o arg>>
    ELSE self.prefix_arg.l \o <<arg>>

\* what a call gives back: a returned value or a raised exception
Ret(v) == [kind |-> "return", val |-> v, exc |-> "", msg |-> ""]

Raise(exc, msg) == [kind |-> "raise", val |-> <<>>, exc |-> exc, msg |-> msg]

\* env.machines[self.for_machine] and the host platform read by mesonlib.is_*()
machine_is_windows(e) == e.target = "windows"

machine_is_cygwin(e) == e.target = "cygwin"

is_sunos(e) == e.host = "sunos"

is_openbsd(e) == e.host = "openbsd"

is_dragonflybsd(e) == e.host = "dragonfly"

(***************************************************************************)
(* build_rpath_args of the GNU-like mixin, the Apple and Solaris linkers   *)
(* and the DynamicLinker default.                                          *)
(***************************************************************************)
DynamicLinker_build_rpath_args_raw_paths(self, e, a) ==
    [i \in 1..Len(a.rpath_paths) |-> "-rpath," \o a.rpath_paths[i]]

DynamicLinker_build_rpath_args(self, e, a) == <<>>

GnuLike_build_rpath_args_dedup_links(self, e, a) ==
    IF machine_is_windows(e) \/ machine_is_cygwin(e) THEN <<>>
    ELSE IF a.rpath_paths = <<>> /\ a.install_rpath = "" /\ a.build_rpath = "" THEN <<>>
    ELSE LET paths == str_join(":", all_paths("$ORIGIN", a.rpath_paths, a.build_dir,
                                               a.from_dir, a.build_rpath))
             origin == IF is_dragonflybsd(e) \/ is_openbsd(e)
                       THEN _apply_prefix(self, "-z,origin") ELSE <<>>
             rpath == _apply_prefix(self, "-rpath," \o pad_rpath(paths, a.install_rpath))
             raw == OrderedSet(a.rpath_paths)
             links == listify([i \in 1..Len(raw) |->
                         _apply_prefix(self, "-rpath-link," \o path_join(a.build_dir, raw[i]))])
         IN  IF is_sunos(e) THEN origin \o rpath ELSE origin \o rpath \o links

GnuLike_build_rpath_args(self, e, a) ==
    IF machine_is_windows(e) \/ machine_is_cygwin(e) THEN <<>>
    ELSE IF a.rpath_paths = <<>> /\ a.install_rpath = "" /\ a.build_rpath = "" THEN <<>>
    ELSE LET paths == str_join(":", all_paths("$ORIGIN", a.rpath_paths, a.build_dir,
                                               a.from_dir, a.build_rpath))
             origin == IF is_dragonflybsd(e) \/ is_openbsd(e)
                       THEN _apply_prefix(self, "-z,origin") ELSE <<>>
             rpath == _apply_prefix(self, "-rpath," \o pad_rpath(paths, a.install_rpath))
             links == listify([i \in 1..Len(a.rpath_paths) |->
                         _apply_prefix(self, "-rpath-link,"
                                             \o path_join(a.build_dir, a.rpath_paths[i]))])
         IN  IF is_sunos(e) THEN origin \o rpath ELSE origin \o rpath \o links

Apple_build_rpath_args_joined(self, e, a) ==
    IF a.rpath_paths = <<>> /\ a.install_rpath = "" /\ a.build_rpath = "" THEN <<>>
    ELSE LET ap == all_paths("@loader_path", a.rpath_paths, a.build_dir,
                             a.from_dir, a.build_rpath)
         IN  _apply_prefix(self, "-headerpad_max_install_names")
               \o _apply_prefix(self, "-rpath," \o str_join(":", ap))

Apple_build_rpath_args(self, e, a) ==
    IF a.rpath_paths = <<>> /\ a.install_rpath = "" /\ a.build_rpath = "" THEN <<>>
    ELSE LET ap == all_paths("@loader_path", a.rpath_paths, a.build_dir,
                             a.from_dir, a.build_rpath)
         IN  _apply_prefix(self, "-headerpad_max_install_names")
               \o listify([i \in 1..Len(ap) |-> _apply_prefix(self, "-rpath," \o ap[i])])

Solaris_build_rpath_args_unpadded(self, e, a) ==
    IF a.rpath_paths = <<>> /\ a.install_rpath = "" /\ a.build_rpath = "" THEN <<>>
    ELSE LET paths == str_join(":", all_paths("$ORIGIN", a.rpath_paths, a.build_dir,
                                               a.from_dir, a.build_rpath))
         IN  _apply_prefix(self, "-rpath," \o paths)

Solaris_build_rpath_args(self, e, a) ==
    IF a.rpath_paths = <<>> /\ a.install_rpath = "" /\ a.build_rpath = "" THEN <<>>
    ELSE LET paths == str_join(":", all_paths("$ORIGIN", a.rpath_paths, a.build_dir,
                                               a.from_dir, a.build_rpath))
         IN  _apply_prefix(self, "-rpath," \o pad_rpath(paths, a.install_rpath))

PGI_build_rpath_args(self, e, a) ==
    IF ~machine_is_windows(e)
    THEN [i \in 1..Len(a.rpath_paths) |-> "-R" \o path_join(a.build_dir, a.rpath_paths[i])]
    ELSE <<>>

(***************************************************************************)
(* The class hierarchy: each class's method resolution order and the       *)
(* methods its body defines.  abstractmethod declarations define nothing.  *)
(***************************************************************************)
GnuLikeClasses == {"GnuDynamicLinker", "LLVMDynamicLinker", "XildLinuxDynamicLinker"}

AppleClasses == {"AppleDynamicLinker", "XildAppleDynamicLinker"}

VisualStudioLikeClasses ==
    {"MSVCDynamicLinker", "ClangClDynamicLinker", "XilinkDynamicLinker", "OptlinkDynamicLinker"}

mro(cls) ==
    IF cls \in GnuLikeClasses
    THEN <<cls, "GnuLikeDynamicLinkerMixin", "PosixDynamicLinkerMixin", "DynamicLinker">>
    ELSE IF cls = "XildAppleDynamicLinker"
    THEN <<cls, "AppleDynamicLinker", "PosixDynamicLinkerMixin", "DynamicLinker">>
    ELSE IF cls = "ArmClangDynamicLinker"
    THEN <<cls, "ArmDynamicLinker", "PosixDynamicLinkerMixin", "DynamicLinker">>
    ELSE IF cls \in VisualStudioLikeClasses
    THEN <<cls, "VisualStudioLikeLinkerMixin", "DynamicLinker">>
    ELSE IF cls = "CcrxDynamicLinker"
    THEN <<cls, "DynamicLinker">>
    ELSE IF cls = "ArLinker"
    THEN <<cls, "StaticLinker">>
    ELSE IF cls = "ArmarLinker"
    THEN <<cls, "ArLinker", "StaticLinker">>
    ELSE IF cls = "VisualStudioLinker"
    THEN <<cls, "VisualStudioLikeLinker", "StaticLinker">>
    ELSE <<cls, "PosixDynamicLinkerMixin", "DynamicLinker">>

defines(c) ==
    CASE c = "DynamicLinker" ->
           {"has_multi_arguments", "get_std_shared_lib_args", "get_pie_args",
            "get_link_whole_for", "get_allow_undefined_args", "get_coverage_args",
            "bitcode_args", "build_rpath_args",
            "_BUILDTYPE_ARGS", "get_exelist", "get_always_args", "get_buildtype_args",
            "_apply_prefix", "invoked_by_compiler", "get_debugfile_args"}
      [] c = "PosixDynamicLinkerMixin" ->
           {"get_std_shared_lib_args", "get_search_args"}
      [] c = "GnuLikeDynamicLinkerMixin" ->
           {"get_pie_args", "get_link_whole_for", "get_allow_undefined_args",
            "get_coverage_args", "get_soname_args", "build_rpath_args",
            "_BUILDTYPE_ARGS", "get_buildtype_args"}
      [] c = "AppleDynamicLinker" ->
           {"get_allow_undefined_args", "get_pie_args", "get_link_whole_for",
            "get_coverage_args", "bitcode_args", "get_soname_args", "build_rpath_args",
            "get_always_args"}
      [] c = "StaticLinker" -> {"get_exelist", "get_std_link_args", "get_always_args"}
      [] c = "VisualStudioLikeLinker" -> {"always_args", "get_always_args"}
      [] c = "ArLinker" -> {"get_std_link_args"}
      [] c = "CcrxDynamicLinker" ->
           {"get_std_shared_lib_args", "get_search_args", "get_allow_undefined_args",
            "get_soname_args"}
      [] c = "ArmDynamicLinker" ->
           {"get_std_shared_lib_args", "get_allow_undefined_args"}
      [] c = "PGIDynamicLinker" ->
           {"get_allow_undefined_args", "get_soname_args", "get_std_shared_lib_args",
            "build_rpath_args"}
      [] c = "VisualStudioLikeLinkerMixin" ->
           {"get_search_args", "get_std_shared_lib_args", "get_link_whole_for",
            "get_allow_undefined_args", "get_soname_args",
            "_BUILDTYPE_ARGS", "get_always_args", "invoked_by_compiler",
            "get_debugfile_args"}
      [] c = "SolarisDynamicLinker" ->
           {"get_link_whole_for", "get_allow_undefined_args", "build_rpath_args",
            "get_soname_args"}
      [] c = "OptlinkDynamicLinker" -> {"get_allow_undefined_args"}
      [] c = "CudaLinker" -> {"get_allow_undefined_args", "get_soname_args"}
      [] OTHER -> {}

\* attribute lookup: the first class of the MRO that defines the method, "" if none
RECURSIVE first_defining(_, _)
first_defining(classes, name) ==
    IF classes = <<>> THEN ""
    ELSE IF name \in defines(Head(classes)) THEN Head(classes)
    ELSE first_defining(Tail(classes), name)

resolve(cls, name) == first_defining(mro(cls), name)

\* the method the class's MRO selects
build_rpath_args(self, e, a) ==
    LET c == resolve(self.cls, "build_rpath_args")
    IN  IF c = "GnuLikeDynamicLinkerMixin" THEN GnuLike_build_rpath_args(self, e, a)
        ELSE IF c = "AppleDynamicLinker" THEN Apple_build_rpath_args(self, e, a)
        ELSE IF c = "SolarisDynamicLinker" THEN Solaris_build_rpath_args(self, e, a)
        ELSE IF c = "PGIDynamicLinker" THEN PGI_build_rpath_args(self, e, a)
        ELSE DynamicLinker_build_rpath_args(self, e, a)

(***************************************************************************)
(* Capability methods.  soversion is None (<<>>) or a string (<<s>>);      *)
(* darwin_versions is None (<<>>) or a pair.                               *)
(***************************************************************************)
is_windows(e) == e.host = "windows"

is_linux(e) == e.host = "linux"

\* get_pie_args
DynamicLinker_get_pie_args_empty(self) == Ret(<<>>)

DynamicLinker_get_pie_args(self) ==
    Raise("EnvironmentException",
          "Linker " \o self.id \o " does not support position-independent executable")

GnuLike_get_pie_args(self) == Ret(<<"-pie">>)

Apple_get_pie_args(self) == Ret(<<"-pie">>)

\* get_link_whole_for
DynamicLinker_get_link_whole_for(self, members) ==
    Raise("EnvironmentException", "Linker " \o self.id \o " does not support link_whole")

GnuLike_get_link_whole_for_always_wraps(self, members) ==
    Ret(_apply_prefix(self, "--whole-archive") \o members
          \o _apply_prefix(self, "--no-whole-archive"))

GnuLike_get_link_whole_for(self, members) ==
    IF members = <<>> THEN Ret(members)
    ELSE Ret(_apply_prefix(self, "--whole-archive") \o members
               \o _apply_prefix(self, "--no-whole-archive"))

Apple_get_link_whole_for(self, members) ==
    Ret(listify([i \in 1..Len(members) |->
                   _apply_prefix(self, "-force_load") \o <<members[i]>>]))

VisualStudioLike_get_link_whole_for(self, members) ==
    Ret(listify([i \in 1..Len(members) |->
                   _apply_prefix(self, "/WHOLEARCHIVE:" \o members[i])]))

Solaris_get_link_whole_for(self, members) ==
    IF members = <<>> THEN Ret(members)
    ELSE Ret(_apply_prefix(self, "--whole-archive") \o members
               \o _apply_prefix(self, "--no-whole-archive"))

\* get_soname_args
GnuLike_get_soname_args_dangling_dot(self, e, a) ==
    IF machine_is_windows(e) \/ machine_is_cygwin(e) THEN Ret(<<>>)
    ELSE LET sostr == IF a.soversion = <<>> THEN "" ELSE a.soversion[1]
         IN  Ret(_apply_prefix(self, "-soname," \o a.prefix \o a.shlib_name \o "."
                                        \o a.suffix \o "." \o sostr))

GnuLike_get_soname_args(self, e, a) ==
    IF machine_is_windows(e) \/ machine_is_cygwin(e) THEN Ret(<<>>)
    ELSE LET sostr == IF a.soversion = <<>> THEN "" ELSE "." \o a.soversion[1]
         IN  Ret(_apply_prefix(self, "-soname," \o a.prefix \o a.shlib_name \o "."
                                        \o a.suffix \o sostr))

Solaris_get_soname_args(self, e, a) ==
    LET sostr == IF a.soversion = <<>> THEN "" ELSE "." \o a.soversion[1]
    IN  Ret(_apply_prefix(self, "-soname," \o a.prefix \o a.shlib_name \o "."
                                   \o a.suffix \o sostr))

Apple_get_soname_args(self, e, a) ==
    IF a.is_shared_module THEN Ret(<<>>)
    ELSE LET install_name ==
                 "@rpath/" \o a.prefix \o a.shlib_name
                   \o (IF a.soversion # <<>> THEN "." \o a.soversion[1] ELSE "")
                   \o ".dylib"
             versions ==
                 IF a.darwin_versions # <<>>
                 THEN <<"-compatibility_version", a.darwin_versions[1],
                        "-current_version", a.darwin_versions[2]>>
                 ELSE <<>>
         IN  Ret(<<"-install_name", install_name>> \o versions)

\* get_allow_undefined_args
DynamicLinker_get_allow_undefined_args(self) ==
    Raise("EnvironmentException", "Linker " \o self.id \o " does not support allow undefined")

\* get_coverage_args
DynamicLinker_get_coverage_args(self) ==
    Raise("EnvironmentException",
          "Linker " \o self.id \o " doesn't implement coverage data generation.")

\* has_multi_arguments
DynamicLinker_has_multi_arguments(self) ==
    Raise("EnvironmentException",
          "Language " \o self.id \o " does not support has_multi_link_arguments.")

\* bitcode_args
DynamicLinker_bitcode_args(self) ==
    Raise("MesonException", "This linker does not support bitcode bundles")

\* get_std_shared_lib_args
Arm_get_std_shared_lib_args(self) ==
    Raise("MesonException", "The Arm Linkers do not support shared libraries")

PGI_get_std_shared_lib_args(self, e) ==
    IF is_windows(e) THEN Ret(<<"-Bdynamic", "-Mmakedll">>)
    ELSE IF is_linux(e) THEN Ret(<<"-shared">>)
    ELSE Ret(<<>>)

\* get_search_args
Ccrx_get_search_args(self, dirname) ==
    Raise("EnvironmentError", "rlink.exe does not have a search dir argument")

\* self.<name>(...) for the capability methods: the attribute lookup and the call
invoke(self, e, name, a) ==
    LET c == resolve(self.cls, name)
    IN  CASE c = "" ->
               Raise("AttributeError", "object has no attribute '" \o name \o "'")
          [] name = "get_pie_args" ->
               IF c = "GnuLikeDynamicLinkerMixin" THEN GnuLike_get_pie_args(self)
               ELSE IF c = "AppleDynamicLinker" THEN Apple_get_pie_args(self)
               ELSE DynamicLinker_get_pie_args(self)
          [] name = "get_link_whole_for" ->
               IF c = "GnuLikeDynamicLinkerMixin"
               THEN GnuLike_get_link_whole_for(self, a.members)
               ELSE IF c = "AppleDynamicLinker"
               THEN Apple_get_link_whole_for(self, a.members)
               ELSE IF c = "VisualStudioLikeLinkerMixin"
               THEN VisualStudioLike_get_link_whole_for(self, a.members)
               ELSE IF c = "SolarisDynamicLinker"
               THEN Solaris_get_link_whole_for(self, a.members)
               ELSE DynamicLinker_get_link_whole_for(self, a.members)
          [] name = "get_soname_args" ->
               IF c = "GnuLikeDynamicLinkerMixin" THEN GnuLike_get_soname_args(self, e, a)
               ELSE IF c = "SolarisDynamicLinker" THEN Solaris_get_soname_args(self, e, a)
               ELSE IF c = "AppleDynamicLinker" THEN Apple_get_soname_args(self, e, a)
               ELSE Ret(<<>>)
          [] name = "get_allow_undefined_args" ->
               IF c = "GnuLikeDynamicLinkerMixin"
               THEN Ret(_apply_prefix(self, "--allow-shlib-undefined"))
               ELSE IF c = "AppleDynamicLinker"
               THEN Ret(_apply_prefix(self, "-undefined,dynamic_lookup"))
               ELSE IF c = "VisualStudioLikeLinkerMixin"
               THEN Ret(_apply_prefix(self, "/FORCE:UNRESOLVED"))
               ELSE IF c = "SolarisDynamicLinker" THEN Ret(<<"-z", "nodefs">>)
               ELSE IF c = "DynamicLinker" THEN DynamicLinker_get_allow_undefined_args(self)
               ELSE Ret(<<>>)
          [] name = "get_coverage_args" ->
               IF c \in {"GnuLikeDynamicLinkerMixin", "AppleDynamicLinker"}
               THEN Ret(<<"--coverage">>)
               ELSE DynamicLinker_get_coverage_args(self)
          [] name = "has_multi_arguments" -> DynamicLinker_has_multi_arguments(self)
          [] name = "bitcode_args" ->
               IF c = "AppleDynamicLinker" THEN Ret(_apply_prefix(self, "-bitcode_bundle"))
               ELSE DynamicLinker_bitcode_args(self)
          [] name = "get_std_shared_lib_args" ->
               IF c = "PosixDynamicLinkerMixin" THEN Ret(<<"-shared">>)
               ELSE IF c = "ArmDynamicLinker" THEN Arm_get_std_shared_lib_args(self)
               ELSE IF c = "PGIDynamicLinker" THEN PGI_get_std_shared_lib_args(self, e)
               ELSE IF c = "VisualStudioLikeLinkerMixin"
               THEN Ret(_apply_prefix(self, "/DLL"))
               ELSE Ret(<<>>)
          [] name = "get_search_args" ->
               IF c = "CcrxDynamicLinker" THEN Ccrx_get_search_args(self, a.dirname)
               ELSE IF c = "VisualStudioLikeLinkerMixin"
               THEN Ret(_apply_prefix(self, "/LIBPATH:" \o a.dirname))
               ELSE Ret(<<"-L" \o a.dirname>>)

(***************************************************************************)
(* Inputs of the RPATH specification.                                      *)
(***************************************************************************)
RawEntries == {"", "sub", "lib", "sub/../lib", "/usr/lib", "/opt/x"}

BuildDirs == {"/b", "bld"}

FromDirs == {"", "sub", "/usr/lib"}

BuildRpaths == {"", "/usr/lib"}

InstallRpaths == {"", "/usr/lib", "/usr/local/lib", "/usr/local/lib/x86_64-linux-gnu"}

RECURSIVE SeqsUpTo(_, _)
SeqsUpTo(S, n) ==
    IF n = 0 THEN {<<>>}
    ELSE LET shorter == SeqsUpTo(S, n - 1)
         IN  shorter \cup {Append(q, x) : q \in shorter, x \in S}

RpathArgs ==
    [build_dir : BuildDirs, from_dir : FromDirs, rpath_paths : SeqsUpTo(RawEntries, MaxRpaths),
     build_rpath : BuildRpaths, install_rpath : InstallRpaths]

\* the (linker instance, environment) pairs build_rpath_args is called with
RpathConfigs ==
    LET gnu == Linker("GnuDynamicLinker", "ld.bfd", StrPrefix("-Wl,"))
    IN  { <<gnu, [target |-> "linux", host |-> "linux"]>>,
          <<gnu, [target |-> "linux", host |-> "openbsd"]>>,
          <<gnu, [target |-> "sunos", host |-> "sunos"]>>,
          <<gnu, [target |-> "windows", host |-> "linux"]>>,
          <<gnu, [target |-> "cygwin", host |-> "cygwin"]>>,
          <<Linker("MSVCDynamicLinker", "link", ListPrefix(<<"/link">>)),
            [target |-> "windows", host |-> "windows"]>>,
          <<Linker("LLVMDynamicLinker", "ld.lld", ListPrefix(<<"-Xlinker">>)),
            [target |-> "linux", host |-> "linux"]>>,
          <<Linker("AppleDynamicLinker", "ld64", StrPrefix("-Wl,")),
            [target |-> "darwin", host |-> "darwin"]>>,
          <<Linker("SolarisDynamicLinker", "ld.solaris", StrPrefix("-Wl,")),
            [target |-> "sunos", host |-> "sunos"]>> }

NoLinker == Linker("", "", StrPrefix(""))

NoEnv == [target |-> "", host |-> ""]

NoCall == [name |-> "", p |-> ""]

NoResult == Ret(<<>>)

\* no list objects, no callers, no subprocess executed
NoHeap == <<>>

NoCallers == <<>>

NoProcs == <<>>

InitRpath ==
    /\ args \in RpathArgs
    /\ linker = NoLinker
    /\ env = NoEnv
    /\ call = NoCall
    /\ result = NoResult
    /\ pc = "ready"
    /\ heap = NoHeap
    /\ callers = NoCallers
    /\ procs = NoProcs
    /\ files = <<>>
    /\ updated_introspection_files = <<>>

\* evaluate_rpath(p, build_dir, from_dir) on one raw entry
EvaluateRpath ==
    /\ pc = "ready"
    /\ \E i \in 1..Len(args.rpath_paths) :
          /\ call' = [name |-> "evaluate_rpath", p |-> args.rpath_paths[i]]
          /\ result' = Ret(evaluate_rpath(args.rpath_paths[i], args.build_dir, args.from_dir))
    /\ pc' = "done"
    /\ UNCHANGED <<linker, env, args, heap, callers, procs, files,
                   updated_introspection_files>>

\* prepare_rpaths(rpath_paths, build_dir, from_dir)
PrepareRpaths ==
    /\ pc = "ready"
    /\ call' = [name |-> "prepare_rpaths", p |-> ""]
    /\ result' = Ret(prepare_rpaths(args.rpath_paths, args.build_dir, args.from_dir))
    /\ pc' = "done"
    /\ UNCHANGED <<linker, env, args, heap, callers, procs, files,
                   updated_introspection_files>>

\* linker.build_rpath_args(env, build_dir, from_dir, rpath_paths, build_rpath, install_rpath)
BuildRpathArgs ==
    /\ pc = "ready"
    /\ \E c \in RpathConfigs : linker' = c[1] /\ env' = c[2]
    /\ call' = [name |-> "build_rpath_args", p |-> ""]
    /\ result' = Ret(build_rpath_args(linker', env', args))
    /\ pc' = "done"
    /\ UNCHANGED <<args, heap, callers, procs, files,
                   updated_introspection_files>>

NextRpath == EvaluateRpath \/ PrepareRpaths \/ BuildRpathArgs

SpecRpath == InitRpath /\ [][NextRpath]_vars

(***************************************************************************)
(* Reading a build_rpath_args result back.                                 *)
(***************************************************************************)
\* the directive carried by one emitted token, without the string prefix
directive_of(self, token) ==
    IF self.prefix_arg.is_str /\ startswith(token, self.prefix_arg.s)
    THEN SubSeq(token, Len(self.prefix_arg.s) + 1, Len(token))
    ELSE token

IsRpathDirective(d) == startswith(d, "-rpath,")

\* the values embedded after '-rpath,', in emission order
RpathValues ==
    LET ds == SelectSeq([i \in 1..Len(result.val) |-> directive_of(linker, result.val[i])],
                        IsRpathDirective)
    IN  [i \in 1..Len(ds) |-> SubSeq(ds[i], Len("-rpath,") + 1, Len(ds[i]))]

BuiltRpath == pc = "done" /\ call.name = "build_rpath_args"

ElfBuilder == linker.cls \in GnuLikeClasses \cup {"SolarisDynamicLinker"}

OriginOf(self) == IF self.cls \in AppleClasses THEN "@loader_path" ELSE "$ORIGIN"

\* the joined path string P before padding
JoinedP ==
    str_join(":", all_paths("$ORIGIN", args.rpath_paths, args.build_dir,
                            args.from_dir, args.build_rpath))

\* the ordered, placeholder-prefixed list before deduplication
Prefixed ==
    LET processed == prepare_rpaths(args.rpath_paths, args.build_dir, args.from_dir)
    IN  [i \in 1..Len(processed) |-> path_join(OriginOf(linker), processed[i])]

\* the paths of the emitted RPATH: one per directive on Apple, ':'-separated otherwise
EmittedPaths ==
    IF linker.cls \in AppleClasses THEN RpathValues
    ELSE IF RpathValues = <<>> THEN <<>>
    ELSE split(RpathValues[1], ":")

OnlyX(s) == s = repeat("X", Len(s))

Count(lst, x) == Cardinality({i \in 1..Len(lst) : lst[i] = x})

FirstIndex(lst, x) == CHOOSE i \in 1..Len(lst) : lst[i] = x /\ \A j \in 1..(i - 1) : lst[j] # x

(***************************************************************************)
(* Claims about the RPATH engine, checked under SpecRpath.                 *)
(***************************************************************************)
\* C1 (as claimed): on the GNU-like and Solaris builders, when the joined string P
\* is shorter than install_rpath, the value after '-rpath,' is exactly
\* len(install_rpath) long, P followed by 'X' filler, with a ':' in between only
\* when P is non-empty.
C1_PaddedLengthIsInstallLength ==
    (BuiltRpath /\ ElfBuilder /\ RpathValues # <<>>
       /\ Len(JoinedP) < Len(args.install_rpath))
    => /\ Len(RpathValues) = 1
       /\ Len(RpathValues[1]) = Len(args.install_rpath)
       /\ JoinedP = "" => OnlyX(RpathValues[1])
       /\ JoinedP # "" =>
            /\ startswith(RpathValues[1], JoinedP \o ":")
            /\ OnlyX(SubSeq(RpathValues[1], Len(JoinedP) + 2, Len(RpathValues[1])))

\* C2: every '-rpath,' directive of the GNU-like and Solaris builders embeds a value
\* that starts with the unpadded joined string P and is at least len(install_rpath)
\* long.
C2_ReservesInstallRpath ==
    (BuiltRpath /\ ElfBuilder /\ RpathValues # <<>>)
    => /\ Len(RpathValues) = 1
       /\ startswith(RpathValues[1], JoinedP)
       /\ Len(RpathValues[1]) >= Len(args.install_rpath)

C2_Witness ==
    /\ BuiltRpath /\ ElfBuilder /\ RpathValues # <<>>
    /\ JoinedP # ""
    /\ Len(JoinedP) < Len(args.install_rpath)

\* C3: prepare_rpaths returns a stable partition of the resolved entries: no absolute
\* entry precedes a non-absolute one, and each of the two groups keeps its members
\* and their input order.
C3_StablePartition ==
    (pc = "done" /\ call.name = "prepare_rpaths")
    => LET inp == [i \in 1..Len(args.rpath_paths) |->
                     evaluate_rpath(args.rpath_paths[i], args.build_dir, args.from_dir)]
           out == result.val
           rel(q) == ~isabs(q)
       IN  /\ Len(out) = Len(inp)
           /\ \A i, j \in 1..Len(out) : (i < j /\ isabs(out[i])) => isabs(out[j])
           /\ SelectSeq(out, rel) = SelectSeq(inp, rel)
           /\ SelectSeq(out, isabs) = SelectSeq(inp, isabs)

C3_Witness ==
    /\ pc = "done" /\ call.name = "prepare_rpaths"
    /\ Len(args.rpath_paths) >= 2
    /\ isabs(args.rpath_paths[1]) /\ args.rpath_paths[1] # args.from_dir
    /\ ~isabs(args.rpath_paths[2])
    /\ ~isabs(result.val[1])
    /\ result.val[Len(result.val)] = args.rpath_paths[1]

C5_AbsoluteAlwaysUnchanged ==
    (pc = "done" /\ call.name = "evaluate_rpath" /\ isabs(call.p))
    => result.val = call.p

\* C5 (amended): evaluate_rpath returns an absolute raw entry unchanged unless the
\* entry equals from_dir.
C5_AbsoluteUnchangedUnlessFromDir ==
    (pc = "done" /\ call.name = "evaluate_rpath" /\ isabs(call.p) /\ call.p # args.from_dir)
    => result.val = call.p

C5_Witness ==
    /\ pc = "done" /\ call.name = "evaluate_rpath"
    /\ isabs(call.p) /\ isabs(args.from_dir) /\ call.p # args.from_dir
    /\ result.val = call.p

\* C6: evaluate_rpath returns '' for a raw entry equal to from_dir, absolute or not.
C6_FromDirIsEmpty ==
    (pc = "done" /\ call.name = "evaluate_rpath" /\ call.p = args.from_dir)
    => result.val = ""

C6_Witness ==
    /\ pc = "done" /\ call.name = "evaluate_rpath"
    /\ call.p = args.from_dir /\ isabs(call.p)
    /\ result.val = ""

\* C11: build_rpath_args returns the empty list, whatever its arguments, on a class
\* that inherits the DynamicLinker default and on a GNU-like linker whose target
\* machine is Windows or Cygwin.
NoRpathSupport ==
    \/ resolve(linker.cls, "build_rpath_args") = "DynamicLinker"
    \/ /\ linker.cls \in GnuLikeClasses
       /\ machine_is_windows(env) \/ machine_is_cygwin(env)

C11_NoRpathGivesEmpty ==
    (BuiltRpath /\ NoRpathSupport) => (result.kind = "return" /\ result.val = <<>>)

C11_Witness ==
    /\ BuiltRpath /\ linker.cls \in GnuLikeClasses /\ machine_is_cygwin(env)
    /\ args.rpath_paths # <<>> /\ args.build_rpath # "" /\ args.install_rpath # ""
    /\ result.val = <<>>

\* the builders that emit an RPATH: GNU-like off Windows and Cygwin, Apple, Solaris
ActiveBuilder ==
    \/ /\ linker.cls \in GnuLikeClasses
       /\ ~machine_is_windows(env) /\ ~machine_is_cygwin(env)
    \/ linker.cls \in AppleClasses
    \/ linker.cls = "SolarisDynamicLinker"

\* the paths of the emitted RPATH without the trailing 'X' padding element
UnpaddedPaths ==
    LET em == EmittedPaths
    IN  IF linker.cls \notin AppleClasses /\ em # <<>>
           /\ em[Len(em)] # "" /\ OnlyX(em[Len(em)])
        THEN SubSeq(em, 1, Len(em) - 1)
        ELSE em

\* C20 (as claimed): a non-empty build_rpath is the last emitted path, appended
\* after the processed, deduplicated entries and never removed by deduplication;
\* an empty build_rpath adds nothing.
C20_BuildRpathIsLastPath ==
    (BuiltRpath /\ ActiveBuilder)
    => LET em == UnpaddedPaths
           base == OrderedSet(Prefixed)
       IN  /\ args.build_rpath = "" => em = base
           /\ args.build_rpath # "" =>
                 /\ em # <<>>
                 /\ em[Len(em)] = args.build_rpath
                 /\ SubSeq(em, 1, Len(em) - 1) = base

\* C20 (amended): a non-empty build_rpath is emitted verbatim exactly once; it is
\* appended after the processed, deduplicated entries unless one of them already
\* equals it, in which case it stays at that entry's position and nothing is
\* appended; an empty build_rpath adds nothing.
C20_BuildRpathAppendedUnlessPresent ==
    (BuiltRpath /\ ActiveBuilder)
    => LET em == UnpaddedPaths
           base == OrderedSet(Prefixed)
       IN  /\ args.build_rpath = "" => em = base
           /\ args.build_rpath # "" =>
                 /\ Count(em, args.build_rpath) = 1
                 /\ member(args.build_rpath, base) => em = base
                 /\ ~member(args.build_rpath, base) => em = Append(base, args.build_rpath)

C20_Witness ==
    /\ BuiltRpath /\ ActiveBuilder
    /\ args.build_rpath # ""
    /\ member(args.build_rpath, Prefixed)
    /\ UnpaddedPaths[Len(UnpaddedPaths)] # args.build_rpath

(***************************************************************************)
(* The capability specification: one constructed linker instance, one      *)
(* capability call on it.                                                  *)
(***************************************************************************)
\* the instances: id and prefix_arg as the constructors of the class fix them, or
\* as handed to __init__ where the class takes them as parameters
CapLinkers ==
    { Linker("GnuDynamicLinker", "ld.bfd", StrPrefix("-Wl,")),
      Linker("GnuDynamicLinker", "ld.gold", ListPrefix(<<"-Xlinker">>)),
      Linker("LLVMDynamicLinker", "ld.lld", StrPrefix("-Wl,")),
      Linker("XildLinuxDynamicLinker", "xild", StrPrefix("-Wl,")),
      Linker("AppleDynamicLinker", "ld64", StrPrefix("-Wl,")),
      Linker("AppleDynamicLinker", "ld64", ListPrefix(<<"-Xlinker">>)),
      Linker("XildAppleDynamicLinker", "xild", StrPrefix("-Wl,")),
      Linker("CcrxDynamicLinker", "rlink", StrPrefix("")),
      Linker("ArmDynamicLinker", "armlink", StrPrefix("")),
      Linker("ArmClangDynamicLinker", "armlink", StrPrefix("")),
      Linker("PGIDynamicLinker", "pgi", StrPrefix("-Wl,")),
      Linker("MSVCDynamicLinker", "link", StrPrefix("")),
      Linker("MSVCDynamicLinker", "link", ListPrefix(<<"/link">>)),
      Linker("ClangClDynamicLinker", "lld-link", StrPrefix("")),
      Linker("XilinkDynamicLinker", "xilink", StrPrefix("")),
      Linker("SolarisDynamicLinker", "ld.solaris", StrPrefix("-Wl,")),
      Linker("SolarisDynamicLinker", "ld.solaris", ListPrefix(<<"-Xlinker">>)),
      Linker("OptlinkDynamicLinker", "optlink", StrPrefix("")),
      Linker("CudaLinker", "nvlink", StrPrefix("-Xlinker=")) }

CapEnvs ==
    { [target |-> "linux", host |-> "linux"],
      [target |-> "windows", host |-> "windows"],
      [target |-> "cygwin", host |-> "cygwin"],
      [target |-> "sunos", host |-> "sunos"] }

Members == {"a.a", "b.a"}

NoArgs ==
    [members |-> <<>>, prefix |-> "", shlib_name |-> "", suffix |-> "", soversion |-> <<>>,
     darwin_versions |-> <<>>, is_shared_module |-> FALSE, dirname |-> ""]

SonameArgs ==
    { [NoArgs EXCEPT !.prefix = pr, !.shlib_name = "foo", !.suffix = sf, !.soversion = sv,
                     !.darwin_versions = dv, !.is_shared_module = sm] :
        pr \in {"lib", ""}, sf \in {"so"}, sv \in {<<>>, <<"1">>},
        dv \in {<<>>, <<"1.0", "1.2">>}, sm \in BOOLEAN }

InitCaps ==
    /\ linker \in CapLinkers
    /\ env \in CapEnvs
    /\ args = NoArgs
    /\ call = NoCall
    /\ result = NoResult
    /\ pc = "ready"
    /\ heap = NoHeap
    /\ callers = NoCallers
    /\ procs = NoProcs
    /\ files = <<>>
    /\ updated_introspection_files = <<>>

\* linker.get_link_whole_for(args)
GetLinkWholeFor ==
    /\ pc = "ready"
    /\ \E m \in SeqsUpTo(Members, MaxMembers) :
          /\ args' = [NoArgs EXCEPT !.members = m]
          /\ result' = invoke(linker, env, "get_link_whole_for", [NoArgs EXCEPT !.members = m])
    /\ call' = [name |-> "get_link_whole_for", p |-> ""]
    /\ pc' = "done"
    /\ UNCHANGED <<linker, env, heap, callers, procs, files,
                   updated_introspection_files>>

\* linker.get_soname_args(env, prefix, shlib_name, suffix, soversion, darwin_versions, is_shared_module)
GetSonameArgs ==
    /\ pc = "ready"
    /\ \E a \in SonameArgs :
          /\ args' = a
          /\ result' = invoke(linker, env, "get_soname_args", a)
    /\ call' = [name |-> "get_soname_args", p |-> ""]
    /\ pc' = "done"
    /\ UNCHANGED <<linker, env, heap, callers, procs, files,
                   updated_introspection_files>>

\* linker.get_pie_args()
GetPieArgs ==
    /\ pc = "ready"
    /\ args' = NoArgs
    /\ result' = invoke(linker, env, "get_pie_args", NoArgs)
    /\ call' = [name |-> "get_pie_args", p |-> ""]
    /\ pc' = "done"
    /\ UNCHANGED <<linker, env, heap, callers, procs, files,
                   updated_introspection_files>>

\* linker.get_allow_undefined_args()
GetAllowUndefinedArgs ==
    /\ pc = "ready"
    /\ args' = NoArgs
    /\ result' = invoke(linker, env, "get_allow_undefined_args", NoArgs)
    /\ call' = [name |-> "get_allow_undefined_args", p |-> ""]
    /\ pc' = "done"
    /\ UNCHANGED <<linker, env, heap, callers, procs, files,
                   updated_introspection_files>>

\* linker.get_coverage_args()
GetCoverageArgs ==
    /\ pc = "ready"
    /\ args' = NoArgs
    /\ result' = invoke(linker, env, "get_coverage_args", NoArgs)
    /\ call' = [name |-> "get_coverage_args", p |-> ""]
    /\ pc' = "done"
    /\ UNCHANGED <<linker, env, heap, callers, procs, files,
                   updated_introspection_files>>

\* linker.has_multi_arguments(args, env)
HasMultiArguments ==
    /\ pc = "ready"
    /\ args' = NoArgs
    /\ result' = invoke(linker, env, "has_multi_arguments", NoArgs)
    /\ call' = [name |-> "has_multi_arguments", p |-> ""]
    /\ pc' = "done"
    /\ UNCHANGED <<linker, env, heap, callers, procs, files,
                   updated_introspection_files>>

\* linker.bitcode_args()
BitcodeArgs ==
    /\ pc = "ready"
    /\ args' = NoArgs
    /\ result' = invoke(linker, env, "bitcode_args", NoArgs)
    /\ call' = [name |-> "bitcode_args", p |-> ""]
    /\ pc' = "done"
    /\ UNCHANGED <<linker, env, heap, callers, procs, files,
                   updated_introspection_files>>

\* linker.get_std_shared_lib_args()
GetStdSharedLibArgs ==
    /\ pc = "ready"
    /\ args' = NoArgs
    /\ result' = invoke(linker, env, "get_std_shared_lib_args", NoArgs)
    /\ call' = [name |-> "get_std_shared_lib_args", p |-> ""]
    /\ pc' = "done"
    /\ UNCHANGED <<linker, env, heap, callers, procs, files,
                   updated_introspection_files>>

\* linker.get_search_args(dirname)
GetSearchArgs ==
    /\ pc = "ready"
    /\ \E d \in {"/opt/lib"} :
          /\ args' = [NoArgs EXCEPT !.dirname = d]
          /\ result' = invoke(linker, env, "get_search_args", [NoArgs EXCEPT !.dirname = d])
    /\ call' = [name |-> "get_search_args", p |-> ""]
    /\ pc' = "done"
    /\ UNCHANGED <<linker, env, heap, callers, procs, files,
                   updated_introspection_files>>

NextCaps ==
    \/ GetLinkWholeFor
    \/ GetSonameArgs
    \/ GetPieArgs
    \/ GetAllowUndefinedArgs
    \/ GetCoverageArgs
    \/ HasMultiArguments
    \/ BitcodeArgs
    \/ GetStdSharedLibArgs
    \/ GetSearchArgs

SpecCaps == InitCaps /\ [][NextCaps]_vars

(***************************************************************************)
(* Claims about the capability methods, checked under SpecCaps.            *)
(***************************************************************************)
Called(name) == pc = "done" /\ call.name = name

\* the tokens the instance's prefix strategy makes of one argument
Prefix(arg) ==
    IF linker.prefix_arg.is_str THEN <<linker.prefix_arg.s \o arg>>
    ELSE linker.prefix_arg.l \o <<arg>>

RECURSIVE ForceLoadEach(_)
ForceLoadEach(members) ==
    IF members = <<>> THEN <<>>
    ELSE Prefix("-force_load") \o <<Head(members)>> \o ForceLoadEach(Tail(members))

\* C7: get_link_whole_for wraps a non-empty member list once on the GNU-like linkers
\* (whole-archive marker, the members in order, no-whole-archive marker), puts a
\* force_load marker before each member on the Apple linkers, and returns an
\* empty list as it is on both.
C7_LinkWhole ==
    (Called("get_link_whole_for") /\ linker.cls \in GnuLikeClasses \cup AppleClasses)
    => /\ result.kind = "return"
       /\ args.members = <<>> => result.val = <<>>
       /\ (args.members # <<>> /\ linker.cls \in GnuLikeClasses)
            => result.val = Prefix("--whole-archive") \o args.members
                              \o Prefix("--no-whole-archive")
       /\ linker.cls \in AppleClasses => result.val = ForceLoadEach(args.members)

C7_Witness ==
    /\ Called("get_link_whole_for")
    /\ linker.cls \in GnuLikeClasses
    /\ args.members = <<"a.a", "b.a">>
    /\ result.val = <<"-Wl,--whole-archive", "a.a", "b.a", "-Wl,--no-whole-archive">>

\* C8: on the GNU-like linkers for a target other than Windows and Cygwin, and on the
\* Solaris linker, get_soname_args gives the one prefixed directive
\* '-soname,<prefix><base>.<suffix>' followed by '.<soversion>' when soversion is
\* given and by nothing when it is None.
C8_ElfSoname ==
    (Called("get_soname_args")
       /\ \/ linker.cls = "SolarisDynamicLinker"
          \/ linker.cls \in GnuLikeClasses /\ env.target \notin {"windows", "cygwin"})
    => LET name == args.prefix \o args.shlib_name \o "." \o args.suffix
       IN  /\ result.kind = "return"
           /\ args.soversion = <<>> => result.val = Prefix("-soname," \o name)
           /\ args.soversion # <<>>
                => result.val = Prefix("-soname," \o name \o "." \o args.soversion[1])

C8_Witness ==
    /\ Called("get_soname_args")
    /\ linker.cls = "GnuDynamicLinker"
    /\ args.soversion = <<>>
    /\ result.val = <<"-Wl,-soname,libfoo.so">>

\* C9: get_pie_args raises the unsupported-capability error on every class that
\* inherits the DynamicLinker default and returns arguments only on the GNU-like
\* and Apple linkers.
C9_PieUnsupportedRaises ==
    Called("get_pie_args")
    => IF linker.cls \in GnuLikeClasses \cup AppleClasses
       THEN result.kind = "return" /\ result.val = <<"-pie">>
       ELSE /\ result.kind = "raise"
            /\ result.exc = "EnvironmentException"
            /\ result.msg = "Linker " \o linker.id
                              \o " does not support position-independent executable"

C9_Witness ==
    /\ Called("get_pie_args")
    /\ linker.cls = "SolarisDynamicLinker"
    /\ result.kind = "raise"

\* C10 (as claimed): every unsupported capability call raises the one typed
\* unsupported-capability error, whose message carries the linker id.
UnsupportedCapabilities ==
    {"get_pie_args", "get_link_whole_for", "get_allow_undefined_args", "get_coverage_args",
     "has_multi_arguments", "bitcode_args", "get_std_shared_lib_args", "get_search_args"}

C10_OneTypedErrorWithId ==
    (pc = "done" /\ call.name \in UnsupportedCapabilities /\ result.kind = "raise")
    => /\ result.exc = "EnvironmentException"
       /\ contains(result.msg, linker.id)

(***************************************************************************)
(* The probing specification: the static archivers ArLinker and            *)
(* ArmarLinker are constructed and then queried any number of times;       *)
(* CudaLinker.parse_version is called.  procs is the list of command       *)
(* lines handed to mesonlib.Popen_safe so far; env.probe is what running   *)
(* the tool does on this machine.                                          *)
(***************************************************************************)
\* str.strip()
IsSpace(c) == c \in {" ", "\n", "\t"}

RECURSIVE lstrip(_)
lstrip(s) == IF s # "" /\ IsSpace(Head(s)) THEN lstrip(Tail(s)) ELSE s

RECURSIVE rstrip(_)
rstrip(s) ==
    IF s # "" /\ IsSpace(SubSeq(s, Len(s), Len(s)))
    THEN rstrip(SubSeq(s, 1, Len(s) - 1))
    ELSE s

strip(s) == rstrip(lstrip(s))

\* mesonlib.Popen_safe: OSError when the process cannot be started, else its stdout
ProbeFailed == [started |-> FALSE, stdout |-> ""]

ProbeOutput(stdout) == [started |-> TRUE, stdout |-> stdout]

ProbeOutputs ==
    { "",
      "ar [abcDfV] a\n [D] - zero\n",
      "ar [abcDfilsuvV] a\n",
      "usage: ar -d [-TLsv] a\n",
      "nvlink: NVIDIA\nrel 10.0, V10.0.166\n",
      "  V9.2.88 \n",
      "nvlink: bad option\n" }

ProbeOutcomes == {ProbeFailed} \cup {ProbeOutput(o) : o \in ProbeOutputs}

StaticExelists == {<<"ar">>, <<"llvm-ar", "--plugin">>}

\* the std_args choice of ArLinker.__init__
ArLinker_std_args_any_D(stdo) == IF contains(stdo, "D") THEN <<"csrD">> ELSE <<"csr">>

ArLinker_std_args(stdo) == IF contains(stdo, "[D]") THEN <<"csrD">> ELSE <<"csr">>

\* the command lines the constructors hand to mesonlib.Popen_safe
ArLinker_probe_cmds(exelist) == <<exelist \o <<"-h">>>>

ArmarLinker_probe_cmds_inherited(exelist) == <<exelist \o <<"-h">>>>

ArmarLinker_probe_cmds(exelist) == <<>>

\* the attributes __init__ leaves on the instance
ArLinker_init(exelist, stdo) ==
    [cls |-> "ArLinker", exelist |-> exelist, id |-> "ar", std_args |-> ArLinker_std_args(stdo)]

ArmarLinker_init(exelist) ==
    [cls |-> "ArmarLinker", exelist |-> exelist, id |-> "armar", std_args |-> <<"-csr">>]

\* CudaLinker.parse_version
CudaLinker_parse_version_first_V(probe) ==
    IF ~probe.started THEN "unknown version"
    ELSE LET parts == split(strip(probe.stdout), "V")
         IN  parts[IF Len(parts) > 1 THEN 2 ELSE 1]

CudaLinker_parse_version(probe) ==
    IF ~probe.started THEN "unknown version"
    ELSE LET parts == split(strip(probe.stdout), "V")
         IN  parts[Len(parts)]

ProbeArgs == [cls : {"ArLinker", "ArmarLinker", "CudaLinker"}, exelist : StaticExelists]

ProbeEnvs == [target : {"linux"}, host : {"linux", "windows"}, probe : ProbeOutcomes]

InitProbe ==
    /\ args \in ProbeArgs
    /\ env \in ProbeEnvs
    /\ linker = NoLinker
    /\ call = NoCall
    /\ result = NoResult
    /\ pc = "new"
    /\ heap = NoHeap
    /\ callers = NoCallers
    /\ procs = NoProcs
    /\ files = <<>>
    /\ updated_introspection_files = <<>>

\* ArLinker(exelist): no handler around the probe, an OSError leaves __init__
ConstructArLinker ==
    /\ pc = "new"
    /\ args.cls = "ArLinker"
    /\ procs' = procs \o ArLinker_probe_cmds(args.exelist)
    /\ call' = [name |-> "__init__", p |-> ""]
    /\ IF env.probe.started
       THEN /\ linker' = ArLinker_init(args.exelist, env.probe.stdout)
            /\ result' = NoResult
            /\ pc' = "constructed"
       ELSE /\ linker' = linker
            /\ result' = Raise("OSError", "")
            /\ pc' = "aborted"
    /\ UNCHANGED <<env, args, heap, callers, files,
                   updated_introspection_files>>

\* ArmarLinker(exelist)
ConstructArmarLinker ==
    /\ pc = "new"
    /\ args.cls = "ArmarLinker"
    /\ procs' = procs \o ArmarLinker_probe_cmds(args.exelist)
    /\ call' = [name |-> "__init__", p |-> ""]
    /\ linker' = ArmarLinker_init(args.exelist)
    /\ result' = NoResult
    /\ pc' = "constructed"
    /\ UNCHANGED <<env, args, heap, callers, files,
                   updated_introspection_files>>

\* linker.get_std_link_args()
GetStdLinkArgs ==
    /\ pc = "constructed"
    /\ call' = [name |-> "get_std_link_args", p |-> ""]
    /\ result' = Ret(linker.std_args)
    /\ UNCHANGED <<linker, env, args, pc, heap, callers, procs, files,
                   updated_introspection_files>>

\* linker.can_linker_accept_rsp()
CanLinkerAcceptRsp ==
    /\ pc = "constructed"
    /\ call' = [name |-> "can_linker_accept_rsp", p |-> ""]
    /\ result' = Ret(IF linker.cls = "ArmarLinker" THEN FALSE ELSE is_windows(env))
    /\ UNCHANGED <<linker, env, args, pc, heap, callers, procs, files,
                   updated_introspection_files>>

\* linker.get_output_args(target)
GetOutputArgs ==
    /\ pc = "constructed"
    /\ \E target \in {"libfoo.a", "libbar.a"} :
          /\ call' = [name |-> "get_output_args", p |-> target]
          /\ result' = Ret(<<target>>)
    /\ UNCHANGED <<linker, env, args, pc, heap, callers, procs, files,
                   updated_introspection_files>>

\* CudaLinker.parse_version()
ParseVersion ==
    /\ pc = "new"
    /\ args.cls = "CudaLinker"
    /\ procs' = Append(procs, <<"nvlink", "--version">>)
    /\ call' = [name |-> "parse_version", p |-> ""]
    /\ result' = Ret(CudaLinker_parse_version(env.probe))
    /\ pc' = "done"
    /\ UNCHANGED <<linker, env, args, heap, callers, files,
                   updated_introspection_files>>

NextProbe ==
    \/ ConstructArLinker
    \/ ConstructArmarLinker
    \/ GetStdLinkArgs
    \/ CanLinkerAcceptRsp
    \/ GetOutputArgs
    \/ ParseVersion

SpecProbe == InitProbe /\ [][NextProbe]_vars

(***************************************************************************)
(* Claims about probing, checked under SpecProbe.                          *)
(***************************************************************************)
Constructed(cls) == pc = "constructed" /\ linker.cls = cls

\* C14: ArLinker.__init__ selects ['csrD'] exactly when the stdout of
\* '<exelist> -h' contains '[D]' and ['csr'] otherwise, and every
\* get_std_link_args call returns the selected list.
C14_DeterministicFlagFollowsMarker ==
    Constructed("ArLinker")
    => LET marked == \E i \in 1..(Len(env.probe.stdout) - 2) :
                         SubSeq(env.probe.stdout, i, i + 2) = "[D]"
           selected == IF marked THEN <<"csrD">> ELSE <<"csr">>
       IN  /\ linker.std_args = selected
           /\ call.name = "get_std_link_args" => result = Ret(selected)

C14_Witness ==
    /\ Constructed("ArLinker")
    /\ call.name = "get_std_link_args"
    /\ result.val = <<"csrD">>

\* C15 (as claimed): when the probe process cannot be started, the construction of
\* an ArLinker still completes and the instance uses ['csr'].
C15_ProbeFailureUsesDefault ==
    (args.cls = "ArLinker" /\ call.name = "__init__" /\ ~env.probe.started)
    => (pc = "constructed" /\ linker.std_args = <<"csr">>)

\* C16 (as claimed): parse_version returns 'unknown version' when the probe cannot
\* be run and when its output contains no 'V'.
NoV(s) == \A i \in 1..Len(s) : SubSeq(s, i, i) # "V"

C16_SentinelOnAnyProbeFailure ==
    (pc = "done" /\ call.name = "parse_version"
       /\ (~env.probe.started \/ NoV(env.probe.stdout)))
    => result = Ret("unknown version")

\* C17: for a banner with at least one 'V', parse_version returns the text of the
\* whitespace-stripped banner after its last 'V'; the result contains no 'V'.
C17_VersionFollowsLastV ==
    (pc = "done" /\ call.name = "parse_version"
       /\ env.probe.started /\ ~NoV(env.probe.stdout))
    => LET banner == strip(env.probe.stdout)
       IN  /\ result.kind = "return"
           /\ NoV(result.val)
           /\ endswith(banner, "V" \o result.val)

C17_Witness ==
    /\ pc = "done" /\ call.name = "parse_version"
    /\ Len(split(env.probe.stdout, "V")) > 2
    /\ result.val = "10.0.166"

\* C18: an ArLinker runs exactly one subprocess, its '-h' probe, during
\* construction and none in any later call; an ArmarLinker runs none at
\* construction or later, has the fixed flags ['-csr'] and refuses response files.
C18_OneProbeAtConstruction ==
    /\ pc = "new" => procs = <<>>
    /\ Constructed("ArLinker") => procs = <<linker.exelist \o <<"-h">>>>
    /\ Constructed("ArmarLinker") =>
         /\ procs = <<>>
         /\ linker.std_args = <<"-csr">>
         /\ call.name = "get_std_link_args" => result = Ret(<<"-csr">>)
         /\ call.name = "can_linker_accept_rsp" => result = Ret(FALSE)

C18_Witness ==
    /\ Constructed("ArLinker")
    /\ call.name = "get_output_args"
    /\ Len(procs) = 1

(***************************************************************************)
(* The sharing specification: one constructed instance is used by          *)
(* NumCallers callers.  heap gives the current contents of every list      *)
(* object: the lists the instance and its class hold, and per caller the   *)
(* list it got from its last call.  linker keeps the configuration the     *)
(* instance was constructed with.  A call takes two steps, its entry and   *)
(* the evaluation of its body, so the calls of different callers           *)
(* interleave.  In SpecShared a caller may also modify, in place, the list *)
(* a call returned to it.                                                  *)
(***************************************************************************)
Callers == 1..NumCallers

Buildtypes == {"plain", "debug", "debugoptimized", "release", "minsize", "custom"}

\* the class-level _BUILDTYPE_ARGS dict of the class that defines it
BuildtypeTable(c) ==
    [bt \in Buildtypes |->
       IF c = "GnuLikeDynamicLinkerMixin" /\ bt = "release" THEN <<"-O1">>
       ELSE IF c = "VisualStudioLikeLinkerMixin" /\ bt = "release" THEN <<"/OPT:REF">>
       ELSE IF c = "VisualStudioLikeLinkerMixin" /\ bt = "minsize"
       THEN <<"/INCREMENTAL:NO", "/OPT:REF">>
       ELSE <<>>]

\* names of the list objects
TableRef(bt) == "_BUILDTYPE_ARGS." \o bt

RetRef(c) == "returned." \o ToString(c)

InstanceRefs == {"exelist", "prefix_arg", "std_args", "always_args"}
                  \cup {TableRef(bt) : bt \in Buildtypes}

Refs == InstanceRefs \cup {RetRef(c) : c \in Callers}

SharedInstance(cls, id, exelist, version, prefix_arg, std_args) ==
    [cls |-> cls, id |-> id, exelist |-> exelist, version |-> version,
     prefix_arg |-> prefix_arg, std_args |-> std_args]

\* the list objects right after construction
NewHeap(self) ==
    [r \in Refs |->
       IF r = "exelist" THEN self.exelist
       ELSE IF r = "prefix_arg" THEN self.prefix_arg.l
       ELSE IF r = "std_args" THEN self.std_args
       ELSE IF r = "always_args" /\ resolve(self.cls, "always_args") # "" THEN <<"/NOLOGO">>
       ELSE IF \E bt \in Buildtypes : r = TableRef(bt)
       THEN BuildtypeTable(resolve(self.cls, "_BUILDTYPE_ARGS"))
              [CHOOSE bt \in Buildtypes : r = TableRef(bt)]
       ELSE <<>>]

\* self as the methods see it: prefix_arg read from its list object
current(h, self) ==
    IF self.prefix_arg.is_str THEN self
    ELSE [self EXCEPT !.prefix_arg = ListPrefix(h["prefix_arg"])]

\* what a call does: its result, the instance-held list object it returned ("" when
\* the list is new or the caller's own) and the list objects afterwards
Outcome(res, ref, h) == [res |-> res, ref |-> ref, heap |-> h]

StaticLinker_get_exelist(h, self) == Outcome(Ret(h["exelist"]), "", h)

DynamicLinker_get_exelist_no_copy(h, self) == Outcome(Ret(h["exelist"]), "exelist", h)

DynamicLinker_get_exelist(h, self) == Outcome(Ret(h["exelist"]), "", h)

DynamicLinker_get_buildtype_args(h, self, buildtype) ==
    Outcome(Ret(h[TableRef(buildtype)]), TableRef(buildtype), h)

GnuLike_get_buildtype_args_stores_result(h, self, buildtype) ==
    LET table == h[TableRef(buildtype)]
        v == listify([i \in 1..Len(table) |-> _apply_prefix(current(h, self), table[i])])
    IN  Outcome(Ret(v), "", [h EXCEPT ![TableRef(buildtype)] = v])

GnuLike_get_buildtype_args(h, self, buildtype) ==
    LET table == h[TableRef(buildtype)]
    IN  Outcome(Ret(listify([i \in 1..Len(table) |->
                               _apply_prefix(current(h, self), table[i])])), "", h)

StaticLinker_get_std_link_args(h, self) == Outcome(Ret(<<>>), "", h)

ArLinker_get_std_link_args(h, self) == Outcome(Ret(h["std_args"]), "std_args", h)

VisualStudioLikeLinker_get_always_args(h, self) == Outcome(Ret(h["always_args"]), "", h)

get_always_args(h, self) ==
    LET c == resolve(self.cls, "get_always_args")
    IN  IF c = "VisualStudioLikeLinker" THEN VisualStudioLikeLinker_get_always_args(h, self)
        ELSE IF c = "AppleDynamicLinker"
        THEN Outcome(Ret(_apply_prefix(current(h, self), "-headerpad_max_install_names")), "", h)
        ELSE IF c = "VisualStudioLikeLinkerMixin"
        THEN Outcome(Ret(_apply_prefix(current(h, self), "/nologo")), "", h)
        ELSE Outcome(Ret(<<>>), "", h)

\* self.prefix_arg += [arg]; return self.prefix_arg
DynamicLinker_apply_prefix_extends_in_place(h, self, arg) ==
    IF self.prefix_arg.is_str
    THEN Outcome(Ret(<<self.prefix_arg.s \o arg>>), "", h)
    ELSE Outcome(Ret(h["prefix_arg"] \o <<arg>>), "prefix_arg",
                 [h EXCEPT !["prefix_arg"] = @ \o <<arg>>])

DynamicLinker_apply_prefix(h, self, arg) ==
    Outcome(Ret(_apply_prefix(current(h, self), arg)), "", h)

\* self.<name>(a) on the shared instance
exec(h, self, name, a) ==
    LET c == resolve(self.cls, name)
    IN  CASE name = "get_exelist" ->
               IF c = "StaticLinker" THEN StaticLinker_get_exelist(h, self)
               ELSE DynamicLinker_get_exelist(h, self)
          [] name = "get_buildtype_args" ->
               IF c = "GnuLikeDynamicLinkerMixin" THEN GnuLike_get_buildtype_args(h, self, a)
               ELSE DynamicLinker_get_buildtype_args(h, self, a)
          [] name = "get_std_link_args" ->
               IF c = "ArLinker" THEN ArLinker_get_std_link_args(h, self)
               ELSE StaticLinker_get_std_link_args(h, self)
          [] name = "get_always_args" -> get_always_args(h, self)
          [] name = "_apply_prefix" -> DynamicLinker_apply_prefix(h, self, a)
          [] name = "get_link_whole_for" ->
               Outcome(invoke(current(h, self), NoEnv, name, [NoArgs EXCEPT !.members = a]),
                       "", h)

SharedLinkers ==
    { SharedInstance("GnuDynamicLinker", "ld.bfd", <<"ld.bfd">>, "2.34",
                     StrPrefix("-Wl,"), <<>>),
      SharedInstance("LLVMDynamicLinker", "ld.lld", <<"ld.lld">>, "9.0.0",
                     ListPrefix(<<"-Xlinker">>), <<>>),
      SharedInstance("MSVCDynamicLinker", "link", <<"link.exe">>, "unknown version",
                     StrPrefix(""), <<>>),
      SharedInstance("AppleDynamicLinker", "ld64", <<"ld">>, "530",
                     StrPrefix("-Wl,"), <<>>),
      SharedInstance("ArLinker", "ar", <<"ar">>, "", StrPrefix(""), <<"csrD">>),
      SharedInstance("VisualStudioLinker", "", <<"lib.exe">>, "", StrPrefix(""), <<>>) }

\* the calls a caller makes: method name and argument
SharedCalls ==
    {<<"get_exelist", "">>, <<"get_std_link_args", "">>, <<"get_always_args", "">>,
     <<"_apply_prefix", "--as-needed">>}
      \cup {<<"get_buildtype_args", bt>> : bt \in {"debug", "release"}}
      \cup {<<"get_link_whole_for", m>> : m \in {<<>>, <<"a.a">>}}

Idle == [pc |-> "idle", name |-> "", arg |-> "", res |-> NoResult, out |-> ""]

InitShared ==
    /\ linker \in SharedLinkers
    /\ heap = NewHeap(linker)
    /\ callers = [c \in Callers |-> Idle]
    /\ env = NoEnv
    /\ args = NoArgs
    /\ call = NoCall
    /\ result = NoResult
    /\ pc = "shared"
    /\ procs = NoProcs
    /\ files = <<>>
    /\ updated_introspection_files = <<>>

\* caller c drops the list of its previous call and enters a method the class has
BeginCall(c) ==
    /\ pc = "shared"
    /\ callers[c].pc # "called"
    /\ \E k \in SharedCalls :
          /\ resolve(linker.cls, k[1]) # ""
          /\ callers' = [callers EXCEPT ![c] =
                           [pc |-> "called", name |-> k[1], arg |-> k[2],
                            res |-> NoResult, out |-> ""]]
    /\ heap' = [heap EXCEPT ![RetRef(c)] = <<>>]
    /\ UNCHANGED <<linker, env, args, call, result, pc, procs, files,
                   updated_introspection_files>>

\* the body runs and returns: an instance-held list as it is, any other list as the
\* object the caller now holds
FinishCall(c) ==
    /\ pc = "shared"
    /\ callers[c].pc = "called"
    /\ LET o == exec(heap, linker, callers[c].name, callers[c].arg)
           out == IF o.res.kind = "raise" THEN ""
                  ELSE IF o.ref # "" THEN o.ref
                  ELSE RetRef(c)
       IN  /\ callers' = [callers EXCEPT ![c].pc = "returned", ![c].res = o.res,
                                         ![c].out = out]
           /\ heap' = IF out = RetRef(c) THEN [o.heap EXCEPT ![out] = o.res.val]
                      ELSE o.heap
    /\ UNCHANGED <<linker, env, args, call, result, pc, procs, files,
                   updated_introspection_files>>

\* caller c modifies the list it was handed in place: lst.append('-mutated')
MutateReturned(c) ==
    /\ pc = "shared"
    /\ callers[c].pc = "returned"
    /\ callers[c].out # ""
    /\ ~member("-mutated", heap[callers[c].out])
    /\ heap' = [heap EXCEPT ![callers[c].out] = Append(@, "-mutated")]
    /\ UNCHANGED <<linker, env, args, call, result, pc, callers, procs, files,
                   updated_introspection_files>>

NextShared == \E c \in Callers : BeginCall(c) \/ FinishCall(c) \/ MutateReturned(c)

SpecShared == InitShared /\ [][NextShared]_vars

\* the callers only call
NextConc == \E c \in Callers : BeginCall(c) \/ FinishCall(c)

SpecConc == InitShared /\ [][NextConc]_vars

(***************************************************************************)
(* Claims about the shared instance.                                       *)
(***************************************************************************)
Returned(c, name) == callers[c].pc = "returned" /\ callers[c].name = name

\* the result of the call on a freshly constructed instance with this configuration
AloneOnFresh(c) == exec(NewHeap(linker), linker, callers[c].name, callers[c].arg).res

\* C12: get_exelist returns a copy: whatever the callers do to the lists they got,
\* the instance's exelist keeps its value and every get_exelist call returns it.
C12_ExelistIsCopied ==
    pc = "shared"
    => /\ heap["exelist"] = linker.exelist
       /\ \A c \in Callers :
            Returned(c, "get_exelist")
            => callers[c].res = Ret(linker.exelist) /\ callers[c].out # "exelist"

C12_Witness ==
    /\ pc = "shared"
    /\ \E c, d \in Callers :
          /\ c # d
          /\ Returned(c, "get_exelist") /\ Returned(d, "get_exelist")
          /\ heap[callers[c].out] = Append(linker.exelist, "-mutated")
          /\ heap[callers[d].out] = linker.exelist

\* C13 (as claimed): whatever the callers do to the lists the calls returned, the
\* exelist, prefix_arg, std_args, always_args and build-type table of the instance
\* keep their values, and every call returns what it returns on a fresh instance.
C13_ConfigurationImmutable ==
    pc = "shared"
    => /\ \A r \in InstanceRefs : heap[r] = NewHeap(linker)[r]
       /\ \A c \in Callers : callers[c].pc = "returned" => callers[c].res = AloneOnFresh(c)

\* C19: for every interleaving of the capability calls of the callers, each call
\* returns what it returns when issued alone on a freshly constructed instance
\* with the same configuration, and the calls leave the instance as constructed.
C19_InterleavedCallsAsAlone ==
    pc = "shared"
    => /\ \A c \in Callers : callers[c].pc = "returned" => callers[c].res = AloneOnFresh(c)
       /\ \A r \in InstanceRefs : heap[r] = NewHeap(linker)[r]

C19_Witness ==
    /\ pc = "shared"
    /\ linker.cls = "LLVMDynamicLinker"
    /\ \E c, d \in Callers :
          /\ c # d
          /\ Returned(c, "get_buildtype_args") /\ callers[c].arg = "release"
          /\ callers[c].res = Ret(<<"-Xlinker", "-O1">>)
          /\ callers[d].pc = "called" /\ callers[d].name = "get_buildtype_args"

\* C24: _apply_prefix(arg) returns [prefix_arg + arg] for a string prefix_arg and
\* prefix_arg followed by arg as a separate last token for a list prefix_arg; the
\* list is a new one each time, and prefix_arg keeps its value whatever the number
\* of calls and whatever the callers do to the lists they got.
C24_ApplyPrefixNewListEachCall ==
    pc = "shared"
    => /\ heap["prefix_arg"] = linker.prefix_arg.l
       /\ \A c \in Callers :
            Returned(c, "_apply_prefix")
            => /\ callers[c].res =
                    Ret(IF linker.prefix_arg.is_str
                        THEN <<linker.prefix_arg.s \o callers[c].arg>>
                        ELSE linker.prefix_arg.l \o <<callers[c].arg>>)
               /\ callers[c].out = RetRef(c)

C24_Witness ==
    /\ pc = "shared"
    /\ linker.prefix_arg = ListPrefix(<<"-Xlinker">>)
    /\ \E c, d \in Callers :
          /\ c # d
          /\ Returned(c, "_apply_prefix") /\ Returned(d, "_apply_prefix")
          /\ heap[callers[c].out] = <<"-Xlinker", "--as-needed", "-mutated">>
          /\ callers[d].res = Ret(<<"-Xlinker", "--as-needed">>)
          /\ heap[callers[d].out] = <<"-Xlinker", "--as-needed">>

(***************************************************************************)
(* Claims about the emitted RPATH directives, checked under SpecRpath.     *)
(***************************************************************************)
GnuActive ==
    /\ linker.cls \in GnuLikeClasses
    /\ ~machine_is_windows(env) /\ ~machine_is_cygwin(env)

IsRpathLinkToken(token) == startswith(directive_of(linker, token), "-rpath-link,")

IsRpathToken(token) == IsRpathDirective(directive_of(linker, token))

\* the tokens of one prefixed '-rpath-link,' directive per raw entry, in raw order
RECURSIVE LinkDirectives(_)
LinkDirectives(raw) ==
    IF raw = <<>> THEN <<>>
    ELSE Prefix("-rpath-link," \o path_join(args.build_dir, Head(raw)))
           \o LinkDirectives(Tail(raw))

\* C21: off Solaris hosts the GNU-like builder ends its result with one individually
\* prefixed '-rpath-link,' directive per raw entry, the entry joined onto build_dir,
\* in raw order and without deduplication, right after the '-rpath,' directive; on a
\* Solaris host and in SolarisDynamicLinker no '-rpath-link' directive is emitted.
C21_RpathLinkPerRawEntry ==
    /\ (BuiltRpath /\ GnuActive /\ ~is_sunos(env) /\ result.val # <<>>)
       => LET links == LinkDirectives(args.rpath_paths)
              n == Len(result.val) - Len(links)
          IN  /\ n >= 1
              /\ SubSeq(result.val, n + 1, Len(result.val)) = links
              /\ IsRpathToken(result.val[n])
              /\ SelectSeq(SubSeq(result.val, 1, n), IsRpathLinkToken) = <<>>
    /\ (BuiltRpath /\ ((GnuActive /\ is_sunos(env)) \/ linker.cls = "SolarisDynamicLinker"))
       => SelectSeq(result.val, IsRpathLinkToken) = <<>>

C21_Witness ==
    /\ BuiltRpath /\ GnuActive /\ ~is_sunos(env)
    /\ Len(args.rpath_paths) = 2 /\ args.rpath_paths[1] = args.rpath_paths[2]
    /\ Len(SelectSeq(result.val, IsRpathLinkToken)) = 2

\* the environments of an ELF target
ElfEnvs ==
    { [target |-> "linux", host |-> "linux"], [target |-> "linux", host |-> "openbsd"],
      [target |-> "linux", host |-> "dragonfly"], [target |-> "sunos", host |-> "sunos"] }

\* C22: the result of SolarisDynamicLinker.build_rpath_args is the '-rpath,'
\* directive of the GNU-like builder for the same arguments and prefix, i.e. the
\* GNU-like result without its '-rpath-link' and '-z,origin' directives, on every
\* target that is neither Windows nor Cygwin.
C22_SolarisIsGnuRpathDirective ==
    (BuiltRpath /\ linker.cls = "SolarisDynamicLinker")
    => \A e \in ElfEnvs :
          result.val = SelectSeq(GnuLike_build_rpath_args(linker, e, args), IsRpathToken)

C22_Witness ==
    /\ BuiltRpath /\ linker.cls = "SolarisDynamicLinker"
    /\ args.rpath_paths # <<>>
    /\ Len(JoinedP) < Len(args.install_rpath)
    /\ Len(result.val) = 1

\* one prefixed '-rpath,' directive per path
RECURSIVE RpathDirectives(_)
RpathDirectives(paths) ==
    IF paths = <<>> THEN <<>>
    ELSE Prefix("-rpath," \o Head(paths)) \o RpathDirectives(Tail(paths))

\* C27: AppleDynamicLinker.build_rpath_args returns [] when rpath_paths, build_rpath
\* and install_rpath are all empty, and otherwise the prefixed
\* '-headerpad_max_install_names' followed by one prefixed '-rpath,' directive per
\* distinct path, '@loader_path'-rooted entries in relative-before-absolute order
\* and then build_rpath; no path is ':'-joined and no 'X' padding is added.
C27_AppleOneDirectivePerPath ==
    (BuiltRpath /\ linker.cls \in AppleClasses)
    => IF args.rpath_paths = <<>> /\ args.build_rpath = "" /\ args.install_rpath = ""
       THEN result.val = <<>>
       ELSE LET base == OrderedSet(Prefixed)
                paths == IF args.build_rpath = "" \/ member(args.build_rpath, base)
                         THEN base ELSE Append(base, args.build_rpath)
            IN  /\ result.val = Prefix("-headerpad_max_install_names")
                                  \o RpathDirectives(paths)
                /\ \A i \in 1..Len(RpathValues) :
                      /\ split(RpathValues[i], ":") = <<RpathValues[i]>>
                      /\ ~OnlyX(RpathValues[i])

C27_Witness ==
    /\ BuiltRpath /\ linker.cls \in AppleClasses
    /\ args.install_rpath = "/usr/local/lib/x86_64-linux-gnu"
    /\ Len(RpathValues) = 3
    /\ startswith(RpathValues[1], "@loader_path/")
    /\ RpathValues[3] = args.build_rpath

\* C28 (as claimed): every relative raw entry is emitted rooted at the origin
\* placeholder and every filesystem-absolute raw entry is emitted verbatim.
C28_AbsoluteVerbatimRelativeRooted ==
    (BuiltRpath /\ ActiveBuilder)
    => LET em == UnpaddedPaths
           raw == args.rpath_paths
           root == path_join(args.build_dir, args.from_dir)
       IN  \A i \in 1..Len(raw) :
              IF isabs(raw[i]) THEN member(raw[i], em)
              ELSE IF raw[i] = args.from_dir THEN member(OriginOf(linker) \o "/", em)
              ELSE member(OriginOf(linker) \o "/"
                            \o relpath(path_join(args.build_dir, raw[i]), root), em)

\* C28 (amended): every raw entry equal to from_dir is emitted as the placeholder
\* directory, every other relative raw entry rooted at the origin placeholder, every
\* other filesystem-absolute raw entry verbatim; nothing else is emitted besides
\* build_rpath.
C28_RootedUnlessAbsoluteAndNotFromDir ==
    (BuiltRpath /\ ActiveBuilder)
    => LET em == UnpaddedPaths
           raw == args.rpath_paths
           root == path_join(args.build_dir, args.from_dir)
       IN  /\ \A i \in 1..Len(raw) :
                 IF raw[i] = args.from_dir THEN member(OriginOf(linker) \o "/", em)
                 ELSE IF isabs(raw[i]) THEN member(raw[i], em)
                 ELSE member(OriginOf(linker) \o "/"
                               \o relpath(path_join(args.build_dir, raw[i]), root), em)
           /\ \A j \in 1..Len(em) :
                 \/ startswith(em[j], OriginOf(linker) \o "/")
                 \/ em[j] = args.build_rpath
                 \/ \E i \in 1..Len(raw) : isabs(raw[i]) /\ em[j] = raw[i]

C28_Witness ==
    /\ BuiltRpath /\ ActiveBuilder
    /\ args.build_rpath = ""
    /\ \E i \in 1..Len(args.rpath_paths) :
          isabs(args.rpath_paths[i]) /\ args.rpath_paths[i] = args.from_dir
    /\ UnpaddedPaths = <<OriginOf(linker) \o "/">>

(***************************************************************************)
(* The GNU-like specification: one GNU-like linker instance and one call   *)
(* of any of the argument-producing methods the mixin defines.             *)
(***************************************************************************)
\* the methods of the mixin that take at most one string and return fixed flags
GnuLike_flag_args(self, e, name, value) ==
    CASE name = "get_asneeded_args" -> _apply_prefix(self, "--as-needed")
      [] name = "get_lto_args" -> <<"-flto">>
      [] name = "sanitizer_args" ->
           IF value = "none" THEN <<>> ELSE <<"-fsanitize=" \o value>>
      [] name = "export_dynamic_args" ->
           IF machine_is_windows(e) \/ machine_is_cygwin(e)
           THEN _apply_prefix(self, "--export-all-symbols")
           ELSE _apply_prefix(self, "-export-dynamic")
      [] name = "import_library_args" -> _apply_prefix(self, "--out-implib=" \o value)
      [] name = "thread_flags" -> IF e.target = "haiku" THEN <<>> ELSE <<"-pthread">>
      [] name = "no_undefined_args" -> _apply_prefix(self, "--no-undefined")
      [] name = "fatal_warnings" -> _apply_prefix(self, "--fatal-warnings")

GnuLinkers ==
    { SharedInstance("GnuDynamicLinker", "ld.bfd", <<"ld.bfd">>, "2.34",
                     StrPrefix("-Wl,"), <<>>),
      SharedInstance("GnuDynamicLinker", "ld.gold", <<"ld.gold">>, "1.16",
                     StrPrefix(""), <<>>),
      SharedInstance("LLVMDynamicLinker", "ld.lld", <<"ld.lld">>, "9.0.0",
                     ListPrefix(<<"-Xlinker">>), <<>>),
      SharedInstance("XildLinuxDynamicLinker", "xild", <<"xild">>, "19.0",
                     StrPrefix("-Wl,"), <<>>) }

InitGnu ==
    /\ linker \in GnuLinkers
    /\ env \in CapEnvs \cup {[target |-> "haiku", host |-> "haiku"]}
    /\ args = NoArgs
    /\ call = NoCall
    /\ result = NoResult
    /\ pc = "ready"
    /\ heap = NoHeap
    /\ callers = NoCallers
    /\ procs = NoProcs
    /\ files = <<>>
    /\ updated_introspection_files = <<>>

\* linker.get_buildtype_args(buildtype)
GetBuildtypeArgs ==
    /\ pc = "ready"
    /\ \E bt \in Buildtypes :
          /\ call' = [name |-> "get_buildtype_args", p |-> bt]
          /\ result' = GnuLike_get_buildtype_args(NewHeap(linker), linker, bt).res
    /\ pc' = "done"
    /\ UNCHANGED <<linker, env, args, heap, callers, procs, files,
                   updated_introspection_files>>

\* one of the fixed-flag methods
GetFlagArgs ==
    /\ pc = "ready"
    /\ \E name \in {"get_asneeded_args", "get_lto_args", "sanitizer_args",
                    "export_dynamic_args", "import_library_args", "thread_flags",
                    "no_undefined_args", "fatal_warnings"} :
       \E value \in IF name = "sanitizer_args" THEN {"none", "address"}
                    ELSE IF name = "import_library_args" THEN {"libfoo.dll.a"}
                    ELSE {""} :
          /\ call' = [name |-> name, p |-> value]
          /\ result' = Ret(GnuLike_flag_args(linker, env, name, value))
    /\ pc' = "done"
    /\ UNCHANGED <<linker, env, args, heap, callers, procs, files,
                   updated_introspection_files>>

\* linker.build_rpath_args(env, build_dir, from_dir, rpath_paths, build_rpath, install_rpath)
GnuBuildRpathArgs ==
    /\ pc = "ready"
    /\ \E a \in {r \in RpathArgs : r.build_dir = "/b" /\ r.from_dir = ""
                                     /\ Len(r.rpath_paths) <= 1} :
          /\ args' = a
          /\ result' = Ret(GnuLike_build_rpath_args(linker, env, a))
    /\ call' = [name |-> "build_rpath_args", p |-> ""]
    /\ pc' = "done"
    /\ UNCHANGED <<linker, env, heap, callers, procs, files,
                   updated_introspection_files>>

NextGnu ==
    \/ GetBuildtypeArgs
    \/ GetFlagArgs
    \/ GnuBuildRpathArgs
    \/ GetPieArgs
    \/ GetLinkWholeFor
    \/ GetAllowUndefinedArgs
    \/ GetCoverageArgs
    \/ GetSonameArgs

SpecGnu == InitGnu /\ [][NextGnu]_vars

(***************************************************************************)
(* Claims about the GNU-like methods, checked under SpecGnu.               *)
(***************************************************************************)
WlPrefixed == linker.prefix_arg.is_str /\ linker.prefix_arg.s = "-Wl,"

AllStartWithWl(tokens) == \A i \in 1..Len(tokens) : startswith(tokens[i], "-Wl,")

\* the methods of the claim, by what they do with their flags
RoutedMethods ==
    {"get_buildtype_args", "get_asneeded_args", "get_allow_undefined_args",
     "export_dynamic_args", "import_library_args", "no_undefined_args", "fatal_warnings",
     "get_soname_args", "build_rpath_args"}

DriverFlagMethods ==
    {"get_pie_args", "get_lto_args", "sanitizer_args", "get_coverage_args", "thread_flags"}

\* the tokens that are flags: the members handed to get_link_whole_for are not
FlagTokens ==
    IF call.name = "get_link_whole_for" /\ Len(result.val) >= 2
    THEN <<result.val[1], result.val[Len(result.val)]>>
    ELSE IF call.name = "get_link_whole_for" THEN <<>>
    ELSE result.val

\* C23 (as claimed): with prefix_arg '-Wl,' every flag token that a capability
\* method of a GNU-like linker returns starts with '-Wl,'.
C23_EveryFlagStartsWithWl ==
    (pc = "done" /\ WlPrefixed /\ call.name \in RoutedMethods \cup DriverFlagMethods
                                                   \cup {"get_link_whole_for"})
    => (result.kind = "return" /\ AllStartWithWl(FlagTokens))

\* C23 (amended): with prefix_arg '-Wl,' every flag token of get_buildtype_args,
\* get_asneeded_args, the get_link_whole_for markers, get_allow_undefined_args,
\* export_dynamic_args, import_library_args, no_undefined_args, fatal_warnings,
\* get_soname_args and build_rpath_args starts with '-Wl,', while get_pie_args,
\* get_lto_args, sanitizer_args, get_coverage_args and thread_flags return their
\* compiler-driver flags without the prefix.
C23_LinkerFlagsRoutedDriverFlagsBare ==
    (pc = "done" /\ WlPrefixed)
    => /\ call.name \in RoutedMethods \cup {"get_link_whole_for"}
            => (result.kind = "return" /\ AllStartWithWl(FlagTokens))
       /\ call.name = "get_pie_args" => result = Ret(<<"-pie">>)
       /\ call.name = "get_lto_args" => result = Ret(<<"-flto">>)
       /\ call.name = "get_coverage_args" => result = Ret(<<"--coverage">>)
       /\ call.name = "sanitizer_args" =>
            result = Ret(IF call.p = "none" THEN <<>> ELSE <<"-fsanitize=" \o call.p>>)
       /\ call.name = "thread_flags" =>
            result = Ret(IF env.target = "haiku" THEN <<>> ELSE <<"-pthread">>)

C23_Witness ==
    /\ pc = "done" /\ WlPrefixed
    /\ call.name = "sanitizer_args"
    /\ result.val = <<"-fsanitize=address">>

(***************************************************************************)
(* The Visual-Studio-like specification: one instance of a concrete        *)
(* Visual-Studio-like dynamic linker class, constructed as its __init__    *)
(* constructs it, and one call on it.                                      *)
(***************************************************************************)
\* VisualStudioLikeLinkerMixin.__init__(*args, direct=True, machine='x86', **kwargs)
VisualStudioLikeLinkerMixin_init(cls, id, prefix_arg, direct, machine) ==
    [cls |-> cls, id |-> id, prefix_arg |-> prefix_arg, direct |-> direct,
     machine |-> machine]

\* the instances the constructors of the concrete classes build: MSVCDynamicLinker
\* takes prefix and machine, ClangClDynamicLinker takes prefix, XilinkDynamicLinker and
\* OptlinkDynamicLinker take neither, and none of them hands on a direct keyword
VsLinkers ==
    {VisualStudioLikeLinkerMixin_init("MSVCDynamicLinker", "link", p, TRUE, m) :
        p \in {StrPrefix(""), StrPrefix("-Wl,"), ListPrefix(<<"/link">>)},
        m \in {"x86", "x64", "arm"}}
      \cup {VisualStudioLikeLinkerMixin_init("ClangClDynamicLinker", "lld-link", p, TRUE,
                                             "x86") :
              p \in {StrPrefix(""), StrPrefix("-Wl,"), ListPrefix(<<"/link">>)}}
      \cup {VisualStudioLikeLinkerMixin_init("XilinkDynamicLinker", "xilink",
                                             StrPrefix(""), TRUE, "x86"),
            VisualStudioLikeLinkerMixin_init("OptlinkDynamicLinker", "optlink",
                                             StrPrefix(""), TRUE, "x86")}

invoked_by_compiler(self) ==
    IF resolve(self.cls, "invoked_by_compiler") = "VisualStudioLikeLinkerMixin"
    THEN self.direct
    ELSE TRUE

VisualStudioLike_get_debugfile_args(self, targetfile) ==
    LET parts == split(targetfile, ".")
        pdbarr == SubSeq(parts, 1, Len(parts) - 1) \o <<"pdb">>
    IN  _apply_prefix(self, "/DEBUG") \o _apply_prefix(self, "/PDB:" \o str_join(".", pdbarr))

get_debugfile_args(self, targetfile) ==
    IF resolve(self.cls, "get_debugfile_args") = "VisualStudioLikeLinkerMixin"
    THEN VisualStudioLike_get_debugfile_args(self, targetfile)
    ELSE <<>>

Targetfiles ==
    {"foo.dll", "foo.exe", "foo.tar.dll", "foo", "a.b/foo", "a.b/foo.dll", "out/foo.exe",
     "out/foo"}

InitVs ==
    /\ linker \in VsLinkers
    /\ env = NoEnv
    /\ args = NoArgs
    /\ call = NoCall
    /\ result = NoResult
    /\ pc = "ready"
    /\ heap = NoHeap
    /\ callers = NoCallers
    /\ procs = NoProcs
    /\ files = <<>>
    /\ updated_introspection_files = <<>>

\* linker.invoked_by_compiler()
InvokedByCompiler ==
    /\ pc = "ready"
    /\ result' = Ret(invoked_by_compiler(linker))
    /\ call' = [name |-> "invoked_by_compiler", p |-> ""]
    /\ pc' = "done"
    /\ UNCHANGED <<linker, env, args, heap, callers, procs, files,
                   updated_introspection_files>>

\* linker.get_debugfile_args(targetfile)
GetDebugfileArgs ==
    /\ pc = "ready"
    /\ \E t \in Targetfiles :
          /\ result' = Ret(get_debugfile_args(linker, t))
          /\ call' = [name |-> "get_debugfile_args", p |-> t]
    /\ pc' = "done"
    /\ UNCHANGED <<linker, env, args, heap, callers, procs, files,
                   updated_introspection_files>>

NextVs ==
    \/ InvokedByCompiler
    \/ GetDebugfileArgs

SpecVs == InitVs /\ [][NextVs]_vars

(***************************************************************************)
(* Claims about the Visual-Studio-like linkers, checked under SpecVs.      *)
(***************************************************************************)
\* C25 (as claimed): invoked_by_compiler() of a Visual-Studio-like dynamic linker is
\* the negation of the direct toggle fixed at construction: False for direct=True
\* (the default), True for direct=False.
C25_InvokedByCompilerIsNotDirect ==
    (pc = "done" /\ call.name = "invoked_by_compiler")
    => result = Ret(~linker.direct)

\* targetfile with only the final extension of its last path component stripped
FinalExtensionStripped(targetfile) ==
    LET comps == split(targetfile, "/")
        last == comps[Len(comps)]
        parts == split(last, ".")
        stem == IF Len(parts) = 1 THEN last
                ELSE str_join(".", SubSeq(parts, 1, Len(parts) - 1))
    IN  str_join("/", SubSeq(comps, 1, Len(comps) - 1) \o <<stem>>)

\* C26 (as claimed): get_debugfile_args(targetfile) returns prefix('/DEBUG') followed
\* by prefix('/PDB:<name>.pdb'), <name> being targetfile with only its final extension
\* stripped, for every targetfile.
C26_PdbNameStripsFinalExtension ==
    (pc = "done" /\ call.name = "get_debugfile_args")
    => result = Ret(Prefix("/DEBUG")
                      \o Prefix("/PDB:" \o FinalExtensionStripped(call.p) \o ".pdb"))

(***************************************************************************)
(* The introspection specification: one meson process calls the writers of *)
(* mintro.py one after the other.  A file of the info directory is absent, *)
(* partial (opened for writing, its document not yet completely on disk)   *)
(* or complete; data names the document: for an introspection file the key *)
(* and the position its write takes in updated_introspection_files (0 for  *)
(* a file left by an earlier process), for meson-info.json the             *)
(* 'information' dict.  args.intro_info holds the keys still to write,     *)
(* call.p the out_file, pc the position in the writer.                     *)
(***************************************************************************)
\* get_meson_introspection_types(): key and whether its IntroCommand has a func
IntroTypes ==
    << [key |-> "benchmarks", func |-> TRUE],
       [key |-> "buildoptions", func |-> TRUE],
       [key |-> "buildsystem_files", func |-> TRUE],
       [key |-> "dependencies", func |-> TRUE],
       [key |-> "scan_dependencies", func |-> FALSE],
       [key |-> "installed", func |-> TRUE],
       [key |-> "projectinfo", func |-> TRUE],
       [key |-> "targets", func |-> TRUE],
       [key |-> "tests", func |-> TRUE] >>

\* 'intro-{}.json'.format(key)
IntroFile(key) == "intro-" \o key \o ".json"

\* the 'information' dict of write_meson_info_file: 'updated' per key with a func
information_every_type(updated) ==
    [k \in {IntroTypes[i].key : i \in 1..Len(IntroTypes)} |->
       \E n \in 1..Len(updated) : updated[n] = k]

information(updated) ==
    [k \in {IntroTypes[i].key : i \in {j \in 1..Len(IntroTypes) : IntroTypes[j].func}} |->
       \E n \in 1..Len(updated) : updated[n] = k]

InitIntro ==
    /\ \E old \in BOOLEAN :
          files = [f \in {"tmp_dump.json", "meson-info.json"}
                          \cup {IntroFile(IntroTypes[i].key) : i \in 1..Len(IntroTypes)} |->
                     IF old /\ f # "tmp_dump.json"
                     THEN [state |-> "complete", data |-> [key |-> "", rev |-> 0]]
                     ELSE [state |-> "absent", data |-> [key |-> "", rev |-> 0]]]
    /\ updated_introspection_files = <<>>
    /\ args = [intro_info |-> <<>>, info_data |-> <<>>]
    /\ call = NoCall
    /\ pc = "idle"
    /\ linker = NoLinker
    /\ env = NoEnv
    /\ result = NoResult
    /\ heap = NoHeap
    /\ callers = NoCallers
    /\ procs = NoProcs

\* generate_introspection_file(builddata, backend) up to the head of the loop of
\* write_intro_info
GenerateIntrospectionFile ==
    /\ pc = "idle"
    /\ LET with_func == SelectSeq(IntroTypes, LAMBDA t : t.func)
           intro_info == [i \in 1..Len(with_func) |-> with_func[i].key]
       IN  /\ Len(updated_introspection_files) + Len(intro_info) <= MaxUpdated
           /\ args' = [intro_info |-> intro_info, info_data |-> <<>>]
    /\ call' = [name |-> "generate_introspection_file", p |-> ""]
    /\ pc' = "open"
    /\ UNCHANGED <<linker, env, result, heap, callers, procs, files,
                   updated_introspection_files>>

\* update_build_options(coredata, info_dir) up to the head of the loop
UpdateBuildOptions ==
    /\ pc = "idle"
    /\ Len(updated_introspection_files) + 1 <= MaxUpdated
    /\ args' = [intro_info |-> <<"buildoptions">>, info_data |-> <<>>]
    /\ call' = [name |-> "update_build_options", p |-> ""]
    /\ pc' = "open"
    /\ UNCHANGED <<linker, env, result, heap, callers, procs, files,
                   updated_introspection_files>>

\* write_intro_info(intro_info, info_dir) up to the head of the loop; with nothing to
\* write it returns at once
WriteIntroInfo ==
    /\ pc = "idle"
    /\ \E intro_info \in {<<>>, <<"tests">>, <<"targets", "tests">>} :
          /\ Len(updated_introspection_files) + Len(intro_info) <= MaxUpdated
          /\ args' = [intro_info |-> intro_info, info_data |-> <<>>]
          /\ pc' = IF intro_info = <<>> THEN "idle" ELSE "open"
    /\ call' = [name |-> "write_intro_info", p |-> ""]
    /\ UNCHANGED <<linker, env, result, heap, callers, procs, files,
                   updated_introspection_files>>

\* write_meson_info_file(builddata, errors) up to the opening of tmp_file
WriteMesonInfoFile ==
    /\ pc = "idle"
    /\ args' = [intro_info |-> <<>>, info_data |-> information(updated_introspection_files)]
    /\ call' = [name |-> "write_meson_info_file", p |-> "meson-info.json"]
    /\ pc' = "open"
    /\ UNCHANGED <<linker, env, result, heap, callers, procs, files,
                   updated_introspection_files>>

\* open(out_file, 'w') in place of open(tmp_file, 'w')
Open_out_file ==
    /\ pc = "open"
    /\ LET out_file == IF call.name = "write_meson_info_file" THEN call.p
                       ELSE IntroFile(Head(args.intro_info))
           data == IF call.name = "write_meson_info_file" THEN args.info_data
                   ELSE [key |-> Head(args.intro_info),
                         rev |-> Len(updated_introspection_files) + 1]
       IN  /\ files' = [files EXCEPT ![out_file] = [state |-> "partial", data |-> data]]
           /\ call' = [call EXCEPT !.p = out_file]
    /\ pc' = "dump"
    /\ UNCHANGED <<linker, env, args, result, heap, callers, procs,
                   updated_introspection_files>>

\* out_file and tmp_file are computed and open(tmp_file, 'w') creates or truncates
\* the file
Open ==
    /\ pc = "open"
    /\ LET out_file == IF call.name = "write_meson_info_file" THEN call.p
                       ELSE IntroFile(Head(args.intro_info))
           data == IF call.name = "write_meson_info_file" THEN args.info_data
                   ELSE [key |-> Head(args.intro_info),
                         rev |-> Len(updated_introspection_files) + 1]
       IN  /\ files' = [files EXCEPT !["tmp_dump.json"] =
                                       [state |-> "partial", data |-> data]]
           /\ call' = [call EXCEPT !.p = out_file]
    /\ pc' = "dump"
    /\ UNCHANGED <<linker, env, args, result, heap, callers, procs,
                   updated_introspection_files>>

\* json.dump(data, fp); fp.flush() and the end of the with block
JsonDump ==
    /\ pc = "dump"
    /\ files' = [files EXCEPT !["tmp_dump.json"].state = "complete"]
    /\ pc' = "replace"
    /\ UNCHANGED <<linker, env, args, call, result, heap, callers, procs,
                   updated_introspection_files>>

\* os.replace(tmp_file, out_file); write_meson_info_file returns after it
OsReplace ==
    /\ pc = "replace"
    /\ files' = [files EXCEPT ![call.p] = files["tmp_dump.json"],
                              !["tmp_dump.json"] =
                                [state |-> "absent", data |-> [key |-> "", rev |-> 0]]]
    /\ pc' = IF call.name = "write_meson_info_file" THEN "idle" ELSE "record"
    /\ UNCHANGED <<linker, env, args, call, result, heap, callers, procs,
                   updated_introspection_files>>

\* updated_introspection_files += [i[0]] and the next turn of the loop
RecordUpdated ==
    /\ pc = "record"
    /\ updated_introspection_files' =
         Append(updated_introspection_files, Head(args.intro_info))
    /\ args' = [args EXCEPT !.intro_info = Tail(@)]
    /\ pc' = IF Tail(args.intro_info) = <<>> THEN "idle" ELSE "open"
    /\ UNCHANGED <<linker, env, call, result, heap, callers, procs, files>>

NextIntro ==
    \/ GenerateIntrospectionFile
    \/ UpdateBuildOptions
    \/ WriteIntroInfo
    \/ WriteMesonInfoFile
    \/ Open
    \/ JsonDump
    \/ OsReplace
    \/ RecordUpdated

SpecIntro == InitIntro /\ [][NextIntro]_vars

(***************************************************************************)
(* Claims about the introspection writers, checked under SpecIntro.        *)
(***************************************************************************)
\* the keys whose IntroCommand has a func, in the order of the dict
KeysWithFunc ==
    <<"benchmarks", "buildoptions", "buildsystem_files", "dependencies", "installed",
      "projectinfo", "targets", "tests">>

IntroKeys == {KeysWithFunc[i] : i \in 1..Len(KeysWithFunc)} \cup {"scan_dependencies"}

\* the key has been written by write_intro_info in this process
WrittenHere(key) ==
    files[IntroFile(key)].state = "complete" /\ files[IntroFile(key)].data.rev >= 1

\* C29: write_intro_info writes each document completely to tmp_dump.json and only
\* then moves it over intro-<key>.json, in input order: an introspection file is never
\* partial, tmp_dump.json is complete when it is moved and gone when the call has
\* returned, and a key is appended to updated_introspection_files only after its file
\* has been replaced by the new document.
C29_AtomicPublishThenRecord ==
    /\ \A k \in IntroKeys : files[IntroFile(k)].state \in {"absent", "complete"}
    /\ pc = "replace" => files["tmp_dump.json"].state = "complete"
    /\ pc = "idle" => files["tmp_dump.json"].state = "absent"
    /\ pc = "record" =>
         /\ call.p = IntroFile(Head(args.intro_info))
         /\ files[call.p] =
              [state |-> "complete",
               data |-> [key |-> Head(args.intro_info),
                         rev |-> Len(updated_introspection_files) + 1]]
    /\ \A n \in 1..Len(updated_introspection_files) :
         /\ WrittenHere(updated_introspection_files[n])
         /\ files[IntroFile(updated_introspection_files[n])].data.rev >= n
    /\ \A k \in IntroKeys :
         WrittenHere(k) =>
           LET r == files[IntroFile(k)].data.rev
           IN  \/ r <= Len(updated_introspection_files)
                    /\ updated_introspection_files[r] = k
               \/ r = Len(updated_introspection_files) + 1 /\ pc = "record"
    /\ (pc = "idle" /\ call.name = "generate_introspection_file") =>
         LET n == Len(updated_introspection_files)
         IN  /\ n >= Len(KeysWithFunc)
             /\ SubSeq(updated_introspection_files, n - Len(KeysWithFunc) + 1, n)
                  = KeysWithFunc

C29_Witness ==
    /\ pc = "idle"
    /\ call.name = "generate_introspection_file"
    /\ updated_introspection_files = KeysWithFunc
    /\ files[IntroFile("tests")] =
         [state |-> "complete", data |-> [key |-> "tests", rev |-> Len(KeysWithFunc)]]
    /\ files["tmp_dump.json"].state = "absent"

\* C30: over any sequence of calls of the four writers updated_introspection_files
\* only grows, and the file write_meson_info_file has written lists exactly the keys
\* whose IntroCommand has a func, each with 'updated' true exactly when the key has
\* been written by write_intro_info earlier in the process.
C30_UpdatedOnlyGrowsAndIsReported ==
    [][/\ Len(updated_introspection_files') >= Len(updated_introspection_files)
       /\ SubSeq(updated_introspection_files', 1, Len(updated_introspection_files))
            = updated_introspection_files
       /\ (pc' = "idle" /\ call'.name = "write_meson_info_file") =>
            /\ files'["meson-info.json"].state = "complete"
            /\ files'["meson-info.json"].data =
                 [k \in {KeysWithFunc[i] : i \in 1..Len(KeysWithFunc)} |->
                    files'[IntroFile(k)].state = "complete"
                      /\ files'[IntroFile(k)].data.rev >= 1]]_vars

C30_Witness ==
    /\ pc = "idle"
    /\ call.name = "write_meson_info_file"
    /\ Len(updated_introspection_files) >= 2
    /\ files["meson-info.json"].data["buildoptions"]
    /\ ~files["meson-info.json"].data["tests"]
    /\ files[IntroFile("tests")].state = "complete"

====
